---- MODULE Spec2Model ----
(***************************************************************************)
(* Model of the marktplaats scraper:                                       *)
(*   - one round of the async HTTP crawler (fetch_listings.py):            *)
(*     run_one_round_async and its _worker_category workers;               *)
(*   - fetch_with_retry calls sharing a round's ProxyRotator;              *)
(*   - one MpScraper.get_listings call with its adaptive delay;            *)
(*   - the listings table under upsert_listings.                           *)
(* Times are in tenths (ages in tenths of an hour, delays in tenths of a   *)
(* second) so that 2.9 h and 0.3 s are integers.                           *)
(***************************************************************************)
EXTENDS Integers, Sequences, FiniteSets, TLC

\* ------------------------------------------------------------------------
\* Bounds of the model
\* ------------------------------------------------------------------------
MaxCats == 2          \* categories of a round
MaxLimit == 2         \* largest per-round item budget tried
MaxProxies == 3       \* longest proxy list tried
NumCalls == 2         \* concurrent fetch_with_retry calls
MaxBatch == 2         \* longest DataFrame passed to upsert_listings
MaxItemId == 2        \* item_ids of the rows tried
MaxFailedLoads == 2   \* failed page or detail loads in one get_listings call
concurrent == 2        \* the `concurrent` argument of run_one_round_async
MaxStr == 2           \* longest string value of a detail payload
MaxLinks == 1         \* links in the category menu and in categoryLinks
MaxWorkers == 3       \* largest --workers tried
MaxRounds == 2        \* passes of the while loop of run_watch_loop
MaxDispatches == 3    \* send_listing_to_next_worker calls followed

\* ------------------------------------------------------------------------
\* Item IDs and index pages
\* ------------------------------------------------------------------------
\* An item ID is <<first character, rest>>.
MARKTPLAATS_ADVERTISEMENT_PREFIX == "a"

IsAd(item_id) == item_id[1] = MARKTPLAATS_ADVERTISEMENT_PREFIX

NoAge == -1           \* listed timestamp missing or unparsable: age_hours is None

MAX_AGE_HOURS == 30   \* 3.0 h

Item(prefix, n, age, vip) ==
    [itemId |-> <<prefix, n>>, age |-> age, vipUrl |-> vip]

\* The index of the spec's example: ages 1h, 2h, 2.9h, 4h, 0.5h.
PageExample ==
    << Item("m", 1, 10, TRUE), Item("m", 2, 20, TRUE), Item("m", 3, 29, TRUE),
       Item("m", 4, 40, TRUE), Item("m", 5, 5, TRUE) >>

\* A sponsored item between organic ones, and an item without a vipUrl.
PageAd ==
    << Item("a", 1, 5, TRUE), Item("m", 1, 10, TRUE), Item("m", 6, 5, FALSE),
       Item("m", 7, NoAge, TRUE) >>

\* The same ID listed twice in one index page.
PageDup ==
    << Item("m", 2, 20, TRUE), Item("m", 2, 20, TRUE), Item("m", 7, 30, TRUE) >>

\* An index page with a single listing.
PageOne == << Item("m", 3, 29, TRUE) >>

\* The index page of the c-th category of the round.
CategoryIndex(c) ==
    CASE c % 3 = 1 -> PageExample
      [] c % 3 = 2 -> PageAd
      [] OTHER -> PageDup

ItemIds == {<<"a", 1>>} \cup {<<"m", n>> : n \in 1..7}

SeenAtStart == {{}, {<<"m", 1>>}, {<<"m", 4>>}}

VARIABLES
    index,              \* index[c]: the listings of category c's index page
    limit,              \* the round's item budget (0 = none)
    seen0,              \* existing_item_ids at round start
    queue,              \* asyncio.Queue of category tasks
    existing_item_ids,  \* the set shared by the workers
    remaining_limit,    \* [limit] or []
    results,            \* results[idx] = <<saved, stale>>, or <<>> if absent
    listings_db,        \* item_ids stored in the listings table
    saves,              \* saves[id]: number of save_listing_to_db calls for id
    outcome,            \* outcome[c][p]: what happened to position p of c's index
    w_pc, w_cat, to_fetch, w_i, w_saved,  \* per worker: position and locals
    total_saved,        \* the round's reported count, -1 until it returns
    taken,              \* taken[c]: how many times a worker took c off the queue
                        \* and went on to fetch its index
    last_dispatch       \* how the last send_listing_to_next_worker call went:
                        \* "delivered", "send_failed", "no_worker"; "none"
                        \* before the first

roundVars == << index, limit, seen0, queue, existing_item_ids, remaining_limit,
                results, listings_db, saves, outcome, w_pc, w_cat, to_fetch,
                w_i, w_saved, total_saved, taken, last_dispatch >>

\* fetch_with_retry calls sharing one ProxyRotator
VARIABLES
    proxies,      \* rotator.proxies
    idx,          \* rotator.idx
    f_pc,         \* per call: "start", "await", "returned", "raised"
    f_attempt,    \* per call: number of the attempt in flight (1..max_retries)
    f_proxy,      \* per call: endpoint of the connector of the attempt in flight
    f_failed,     \* per call: endpoint of the attempt that just failed with 403
    f_last        \* per call: the last response received

fetchVars == << proxies, idx, f_pc, f_attempt, f_proxy, f_failed, f_last >>

\* the listings table under upsert_listings
VARIABLES
    table,        \* the rows of the listings table, in rowid order
    db_prev,      \* the table before the last call
    db_batch,     \* the DataFrame of the last call
    db_ret,       \* the count returned by the last call
    db_exc,       \* "nocall", or what the last call raised: "none", "ValueError"
    table_pk,     \* the listings table has its PRIMARY KEY on item_id
    db_op,        \* the last call: "none", "upsert", "save"
    db_repeat     \* the last call was an upsert_listings with the DataFrame of
                  \* the call before it, an upsert_listings that returned

dbVars == << table, db_prev, db_batch, db_ret, db_exc, table_pk, db_op,
             db_repeat >>

\* one MpScraper session running one get_listings call
VARIABLES
    mp_site,        \* mp_site[c][page]: res_listings of that page of (sub)category c
    mp_proxy,       \* self.__proxy is set
    mp_fast,        \* self.__fast
    mp_max_age,     \* max_age_hours, or NoMaxAge
    mp_existing,    \* the existing_item_ids argument
    adaptive_delay,          \* self.__adaptive_delay
    adaptive_success_count,  \* self.__adaptive_success_count
    driver_gen,     \* how many times self.__driver was recreated
    mp_pc,          \* position in get_listings, or how it ended
    mp_limit,       \* the local `limit` after line 564
    listings_count,
    max_listings,
    listings,       \* item_ids of the collected listings, in order
    item_ids,       \* the seen set of the call
    cat_idx,        \* index of the (sub)category being crawled
    current_page,
    res_pos,        \* position in res_listings of the page being iterated
    page_listings,
    on_new_calls,   \* item_ids passed to on_new_listing, in order
    batched,        \* item_ids passed to on_batch
    detail_fetched, \* item_ids whose detail page was requested
    mp_blocks,      \* ForbiddenError classifications so far
    mp_misses,      \* other failed loads so far
    since_block,    \* successful requests since the last block classification
    miss_run,       \* loads in a row of the current page that ended in ElementNotFound
    detail_tries,   \* __get_listing_details calls of the `while not got_details`
                    \* loop for the current listing
    mp_arg_limit    \* the limit argument of the get_listings call

mpVars == << mp_site, mp_proxy, mp_fast, mp_max_age, mp_existing,
             adaptive_delay, adaptive_success_count, driver_gen, mp_pc,
             mp_limit, listings_count, max_listings, listings, item_ids,
             cat_idx, current_page, res_pos, page_listings, on_new_calls,
             batched, detail_fetched, mp_blocks, mp_misses, since_block,
             miss_run, detail_tries, mp_arg_limit >>

\* one extract_config call
VARIABLES
    cfg_text,     \* the JSON text assigned to window.__CONFIG__
    cfg_html,     \* the html argument
    cfg_pc,       \* "call", "returned", or "off"
    cfg_out       \* what the call returned

cfgVars == << cfg_text, cfg_html, cfg_pc, cfg_out >>

\* one run of python -m mpscraper: the sequential loop of main, or one
\* _worker_scrape_categories call of the parallel mode
VARIABLES
    run_mode,        \* "main", "worker", or "off"
    worker_id,
    args_proxies,    \* args.proxies
    item_ids0,       \* the item_ids the run starts with
    proxies_to_try,
    run_try,         \* position of `for proxy in proxies_to_try`
    run_pc,          \* "new", "call", "after", "returned", "raised", "off"
    run_cat,         \* position of the loop over the categories
    run_stop,        \* main's `stop`
    run_item_ids,    \* main's item_ids / the worker's worker_item_ids
    run_listings,    \* the worker's all_listings, as item_ids in order
    save_df,         \* main's save_state["df"], as the set of its item_ids
    listings_df,     \* main's listings_df, as the set of its item_ids
    run_store,       \* item_ids written by main's last upsert_listings
    run_sessions,    \* the proxy arguments of the MpScraper(...) calls, in order
    run_fails,       \* sessions ended by a proxy failure
    run_called,      \* categories get_listings was called for in this session
    run_err,         \* categories whose get_listings call raised ListingsError
    run_intr,        \* item_ids carried by a ListingsInterrupt
    run_returned     \* item_ids of the lists get_listings calls returned

runVars == << run_mode, worker_id, args_proxies, item_ids0, proxies_to_try,
              run_try, run_pc, run_cat, run_stop, run_item_ids, run_listings,
              save_df, listings_df, run_store, run_sessions, run_fails,
              run_called, run_err, run_intr, run_returned >>

\* one get_categories call
VARIABLES
    cat_nav,      \* the <a class="hz-CategoryMenuBarItem-link"> elements of the
                  \* menu list, or NoMenu when the page has no such <ul>
    cat_config,   \* what extract_config returns for the page
    cat_pc,       \* "call", "returned", or "off"
    cat_out       \* what the call returned

catVars == << cat_nav, cat_config, cat_pc, cat_out >>

\* the parallel mode of main: the worker threads of one run
VARIABLES
    par_limit,     \* args.limit
    par_workers,   \* args.workers
    par_ncats,     \* len(parent_categories_list)
    par_onsite,    \* new listings each parent category holds
    par_next,      \* per worker: categories of its chunk already passed to get_listings
    par_got,       \* per worker: len(all_listings) of _worker_scrape_categories
    par_total      \* len(all_listings) of main after the workers, -1 before; -2 = off

parVars == << par_limit, par_workers, par_ncats, par_onsite, par_next, par_got,
              par_total >>

\* get_listings followed beyond MaxFailedLoads failed loads
VARIABLES
    mp_again       \* parity of the loads repeated after MaxFailedLoads failed ones

liveVars == << mp_again >>

\* one run_watch_loop session
VARIABLES
    wl_stored,           \* item_ids in the listings table when the loop started
    sent_item_ids,       \* the set on_new keeps
    new_listing_queue,   \* item_ids of the entries put on new_listing_queue
    wl_scraper,          \* mp_scraper is not None
    wl_opened,           \* MpScraper(...) constructions so far
    wl_pc,               \* "loop": head of the while loop; "cats": in the for
                         \* loop; "stopped"; "off"
    wl_cat,              \* position of the for loop over parent_categories
    wl_rounds            \* passes of the while loop started

watchVars == << wl_stored, sent_item_ids, new_listing_queue, wl_scraper,
                wl_opened, wl_pc, wl_cat, wl_rounds >>

\* the dispatches of send_listing_to_next_worker on one database
VARIABLES
    on_shift,         \* get_workers_on_shift: user_ids in ascending order
    last_worker_id,   \* rotation_state['last_worker_id'], NoWorker if not set
    rr_offered,       \* user_ids send_listing_to_telegram was called for, in order
    rr_ok             \* what each of these calls returned

rrVars == << on_shift, last_worker_id, rr_offered, rr_ok >>

vars == << roundVars, fetchVars, dbVars, mpVars, cfgVars, runVars, catVars, parVars, liveVars, watchVars, rrVars >>

\* what the actions of one part leave alone
notRound == << fetchVars, dbVars, mpVars, cfgVars, runVars, catVars, parVars, liveVars, watchVars, rrVars >>
notFetch == << roundVars, dbVars, mpVars, cfgVars, runVars, catVars, parVars, liveVars, watchVars, rrVars >>
notDb == << roundVars, fetchVars, mpVars, cfgVars, runVars, catVars, parVars, liveVars, watchVars, rrVars >>
notMp == << roundVars, fetchVars, dbVars, cfgVars, runVars, catVars, parVars, liveVars, watchVars, rrVars >>
notCfg == << roundVars, fetchVars, dbVars, mpVars, runVars, catVars, parVars, liveVars, watchVars, rrVars >>
notRun == << roundVars, fetchVars, dbVars, mpVars, cfgVars, catVars, parVars, liveVars, watchVars, rrVars >>
notCat == << roundVars, fetchVars, dbVars, mpVars, cfgVars, runVars, parVars, liveVars, watchVars, rrVars >>
notPar == << roundVars, fetchVars, dbVars, mpVars, cfgVars, runVars, catVars, liveVars, watchVars, rrVars >>
notLive == << roundVars, fetchVars, dbVars, mpVars, cfgVars, runVars, catVars, parVars, watchVars, rrVars >>
notAgain == << roundVars, fetchVars, dbVars, cfgVars, runVars, catVars, parVars, watchVars, rrVars >>
notWatch == << roundVars, fetchVars, dbVars, mpVars, cfgVars, runVars, catVars, parVars, liveVars, rrVars >>
notRr == << roundVars, fetchVars, dbVars, mpVars, cfgVars, runVars, catVars, parVars, liveVars, watchVars >>

Workers == 1..concurrent

Min(a, b) == IF a < b THEN a ELSE b
Max(a, b) == IF a > b THEN a ELSE b

\* ------------------------------------------------------------------------
\* run_one_round_async / _worker_category  (fetch_listings.py)
\* ------------------------------------------------------------------------
Cats == 1..Len(index)

NumWorkersAll(n) == concurrent

\* for _ in range(min(concurrent, len(categories)))
NumWorkers(n) == Min(concurrent, n)

\* State after run_one_round_async has filled the queue and created the
\* worker tasks (lines 640-652); no worker has run yet.
RoundInit ==
    /\ index \in {[c \in 1..n |-> CategoryIndex(c)] : n \in 1..MaxCats}
                   \cup {<<CategoryIndex(c)>> : c \in 1..3}
                   \cup {[c \in 1..(concurrent + 1) |-> PageOne]}
    /\ limit \in 0..MaxLimit
    /\ seen0 \in SeenAtStart
    /\ queue = [i \in 1..Len(index) |-> i]
    /\ existing_item_ids = seen0
    /\ remaining_limit = IF limit > 0 THEN <<limit>> ELSE <<>>
    /\ results = [c \in 1..Len(index) |-> <<>>]
    /\ listings_db = seen0
    /\ saves = [id \in ItemIds |-> 0]
    /\ outcome = [c \in 1..Len(index) |-> [p \in 1..Len(index[c]) |-> "none"]]
    /\ w_pc = [w \in Workers |->
                 IF w <= NumWorkers(Len(index)) THEN "start" ELSE "absent"]
    /\ w_cat = [w \in Workers |-> 0]
    /\ to_fetch = [w \in Workers |-> <<>>]
    /\ w_i = [w \in Workers |-> 0]
    /\ w_saved = [w \in Workers |-> 0]
    /\ total_saved = -1
    /\ taken = [c \in 1..Len(index) |-> 0]
    /\ last_dispatch = "none"

RoundOff ==
    /\ index = <<>>
    /\ limit = 0
    /\ seen0 = {}
    /\ queue = <<>>
    /\ existing_item_ids = {}
    /\ remaining_limit = <<>>
    /\ results = <<>>
    /\ listings_db = {}
    /\ saves = [id \in ItemIds |-> 0]
    /\ outcome = <<>>
    /\ w_pc = [w \in Workers |-> "absent"]
    /\ w_cat = [w \in Workers |-> 0]
    /\ to_fetch = [w \in Workers |-> <<>>]
    /\ w_i = [w \in Workers |-> 0]
    /\ w_saved = [w \in Workers |-> 0]
    /\ total_saved = 0
    /\ taken = <<>>
    /\ last_dispatch = "none"

\* remaining_limit and remaining_limit[0] <= 0
BudgetExhausted(rl) == rl # <<>> /\ rl[1] <= 0

LoopHeadGoesOn(w, res, rl) ==
    /\ results' = res
    /\ IF queue = <<>>
       THEN /\ w_pc' = [w_pc EXCEPT ![w] = "done"]
            /\ w_cat' = [w_cat EXCEPT ![w] = 0]
            /\ queue' = queue
            /\ taken' = taken
       ELSE IF BudgetExhausted(rl)
       THEN /\ w_pc' = [w_pc EXCEPT ![w] = "start"]
            /\ w_cat' = [w_cat EXCEPT ![w] = 0]
            /\ queue' = Append(Tail(queue), Head(queue))
            /\ taken' = taken
       ELSE /\ w_pc' = [w_pc EXCEPT ![w] = "index"]
            /\ w_cat' = [w_cat EXCEPT ![w] = Head(queue)]
            /\ queue' = Tail(queue)
            /\ taken' = [taken EXCEPT ![Head(queue)] = @ + 1]

\* Head of the worker loop, up to the await of the index fetch.
LoopHead(w, res, rl) ==
    /\ results' = res
    /\ IF queue = <<>>
       THEN /\ w_pc' = [w_pc EXCEPT ![w] = "done"]
            /\ w_cat' = [w_cat EXCEPT ![w] = 0]
            /\ queue' = queue
            /\ taken' = taken
       ELSE IF BudgetExhausted(rl)
       THEN /\ w_pc' = [w_pc EXCEPT ![w] = "done"]
            /\ w_cat' = [w_cat EXCEPT ![w] = 0]
            /\ queue' = Append(Tail(queue), Head(queue))
            /\ taken' = taken
       ELSE /\ w_pc' = [w_pc EXCEPT ![w] = "index"]
            /\ w_cat' = [w_cat EXCEPT ![w] = Head(queue)]
            /\ queue' = Tail(queue)
            /\ taken' = [taken EXCEPT ![Head(queue)] = @ + 1]

\* results[idx] = (saved, ..., stale), then back to the loop head.
CategoryDone(w, c, sv, stale, rl) ==
    /\ to_fetch' = [to_fetch EXCEPT ![w] = <<>>]
    /\ w_i' = [w_i EXCEPT ![w] = 0]
    /\ w_saved' = [w_saved EXCEPT ![w] = 0]
    /\ LoopHead(w, [results EXCEPT ![c] = <<sv, stale>>], rl)

AfterExceptionStops(w, c, rl) ==
    /\ to_fetch' = [to_fetch EXCEPT ![w] = <<>>]
    /\ w_i' = [w_i EXCEPT ![w] = 0]
    /\ w_saved' = [w_saved EXCEPT ![w] = 0]
    /\ w_pc' = [w_pc EXCEPT ![w] = "done"]
    /\ w_cat' = [w_cat EXCEPT ![w] = 0]
    /\ UNCHANGED << results, queue, taken >>

\* except Exception: results[idx] = (0, ..., False), and the while loop goes
\* on with the next task.
AfterException(w, c, rl) == CategoryDone(w, c, 0, FALSE, rl)

\* The loop that fills to_fetch with the positions of the items to fetch.
RECURSIVE BuildToFetch(_, _, _, _, _, _)
BuildToFetch(all_listings, p, acc, sv, limit_val, existing) ==
    IF p > Len(all_listings) THEN acc
    ELSE IF limit_val > 0 /\ sv + Len(acc) >= limit_val THEN acc
    ELSE IF all_listings[p].itemId \in existing THEN
        BuildToFetch(all_listings, p + 1, acc, sv, limit_val, existing)
    ELSE IF ~all_listings[p].vipUrl THEN
        BuildToFetch(all_listings, p + 1, acc, sv, limit_val, existing)
    ELSE BuildToFetch(all_listings, p + 1, Append(acc, p), sv, limit_val, existing)

ForLoopFromEnd(w, c, tf, i, sv, rl) ==
    IF i <= Len(tf) /\ ~BudgetExhausted(rl)
    THEN /\ w_pc' = [w_pc EXCEPT ![w] = "detail"]
         /\ to_fetch' = [to_fetch EXCEPT ![w] = tf]
         /\ w_i' = [w_i EXCEPT ![w] = Len(tf) + 1 - i]
         /\ w_saved' = [w_saved EXCEPT ![w] = sv]
         /\ UNCHANGED << queue, results, w_cat, taken >>
    ELSE CategoryDone(w, c, sv, FALSE, rl)

\* `for item in to_fetch` from position i, up to the await of the detail fetch.
ForLoop(w, c, tf, i, sv, rl) ==
    IF i <= Len(tf) /\ ~BudgetExhausted(rl)
    THEN /\ w_pc' = [w_pc EXCEPT ![w] = "detail"]
         /\ to_fetch' = [to_fetch EXCEPT ![w] = tf]
         /\ w_i' = [w_i EXCEPT ![w] = i]
         /\ w_saved' = [w_saved EXCEPT ![w] = sv]
         /\ UNCHANGED << queue, results, w_cat, taken >>
    ELSE CategoryDone(w, c, sv, FALSE, rl)

\* hours is not None and hours >= max_age_hours
IsStale(hours, max_age_hours) == hours # NoAge /\ hours >= max_age_hours

SeenAddReplaces(seen, item_id) == {item_id}

\* existing_item_ids.add(item_id)
SeenAdd(seen, item_id) == seen \cup {item_id}

\* if remaining_limit and remaining_limit[0] > 0: remaining_limit[0] -= 1
DecLimit(rl) == IF rl # <<>> /\ rl[1] > 0 THEN <<rl[1] - 1>> ELSE rl

\* The task starts running.
WorkerStart(w) ==
    /\ w_pc[w] = "start"
    /\ LoopHead(w, results, remaining_limit)
    /\ UNCHANGED << index, limit, seen0, existing_item_ids, remaining_limit,
                    listings_db, saves, outcome, to_fetch, w_i, w_saved,
                    total_saved, last_dispatch >>
    /\ UNCHANGED notRound

\* The index fetch of the worker's category returns: with listings ("ok"),
\* without data or with an empty list ("nodata"), or it raises ("error").
IndexReturn(w) ==
    /\ w_pc[w] = "index"
    /\ \E o \in {"ok", "nodata", "error"} :
         LET c == w_cat[w] IN
         IF o = "ok"
         THEN LET limit_val == IF remaining_limit # <<>> THEN remaining_limit[1] ELSE 0
                  tf == BuildToFetch(index[c], 1, <<>>, 0, limit_val, existing_item_ids)
              IN ForLoop(w, c, tf, 1, 0, remaining_limit)
         ELSE IF o = "nodata"
         THEN CategoryDone(w, c, 0, FALSE, remaining_limit)
         ELSE AfterException(w, c, remaining_limit)
    /\ UNCHANGED << index, limit, seen0, existing_item_ids, remaining_limit,
                    listings_db, saves, outcome, total_saved, last_dispatch >>
    /\ UNCHANGED notRound

\* The ways a dispatch can go: whether a worker is on shift, and whether
\* send_listing_to_telegram got the message out.
Dispatches == {"delivered", "send_failed", "no_worker"}

\* send_listing_to_next_worker: False when get_next_worker_for_listing finds
\* nobody on shift, else the bool send_listing_to_telegram returned.
send_listing_to_next_worker(d) == d = "delivered"

\* `ok, worker_id = send_listing_to_next_worker(ns, db_path)`: the right-hand
\* side is unpacked into two names; a bool is not iterable and the
\* assignment raises TypeError.
UnpackRaises(v) == v \in BOOLEAN

\* _fetch_detail_with_retry returns for the current item of to_fetch:
\* details ("ok") or None ("fail"); or the details are fresh and
\* save_listing_to_db raises ("raise"). A fresh item is saved, added to the
\* seen-set, counted and dispatched; the TypeError of the dispatch line is
\* caught by the worker's `except Exception`.
DetailReturn(w) ==
    /\ w_pc[w] = "detail"
    /\ \E o \in {"ok", "fail", "raise"}, d \in Dispatches :
         LET c == w_cat[w]
             p == to_fetch[w][w_i[w]]
             item == index[c][p]
         IN
         IF o = "raise"
         THEN /\ ~IsStale(item.age, MAX_AGE_HOURS)
              /\ outcome' = [outcome EXCEPT ![c][p] = "raised"]
              /\ AfterException(w, c, remaining_limit)
              /\ UNCHANGED << existing_item_ids, remaining_limit, listings_db,
                              saves, last_dispatch >>
         ELSE IF o = "fail"
         THEN /\ outcome' = [outcome EXCEPT ![c][p] = "failed"]
              /\ ForLoop(w, c, to_fetch[w], w_i[w] + 1, w_saved[w], remaining_limit)
              /\ UNCHANGED << existing_item_ids, remaining_limit, listings_db,
                              saves, last_dispatch >>
         ELSE IF IsStale(item.age, MAX_AGE_HOURS)
         THEN /\ outcome' = [outcome EXCEPT ![c][p] = "stale"]
              /\ CategoryDone(w, c, w_saved[w], TRUE, remaining_limit)
              /\ UNCHANGED << existing_item_ids, remaining_limit, listings_db,
                              saves, last_dispatch >>
         ELSE LET rl == DecLimit(remaining_limit) IN
              /\ outcome' = [outcome EXCEPT ![c][p] = "saved"]
              /\ listings_db' = listings_db \cup {item.itemId}
              /\ saves' = [saves EXCEPT ![item.itemId] = @ + 1]
              /\ existing_item_ids' = SeenAdd(existing_item_ids, item.itemId)
              /\ remaining_limit' = rl
              /\ last_dispatch' = d
              /\ IF UnpackRaises(send_listing_to_next_worker(d))
                 THEN AfterException(w, c, rl)
                 ELSE ForLoop(w, c, to_fetch[w], w_i[w] + 1, w_saved[w] + 1, rl)
    /\ UNCHANGED << index, limit, seen0, total_saved >>
    /\ UNCHANGED notRound

RECURSIVE SumSaved(_, _)
SumSaved(res, n) ==
    IF n = 0 THEN 0
    ELSE (IF res[n] # <<>> THEN res[n][1] ELSE 0) + SumSaved(res, n - 1)

\* asyncio.gather has returned: the round sums the categories' outcomes.
RoundReturn ==
    /\ total_saved = -1
    /\ \A w \in Workers : w_pc[w] \in {"done", "absent"}
    /\ total_saved' = SumSaved(results, Len(index))
    /\ UNCHANGED << index, limit, seen0, queue, existing_item_ids,
                    remaining_limit, results, listings_db, saves, outcome,
                    w_pc, w_cat, to_fetch, w_i, w_saved, taken, last_dispatch >>
    /\ UNCHANGED notRound

RoundNext ==
    \/ \E w \in Workers : WorkerStart(w)
    \/ \E w \in Workers : IndexReturn(w)
    \/ \E w \in Workers : DetailReturn(w)
    \/ RoundReturn

\* ------------------------------------------------------------------------
\* ProxyRotator and fetch_with_retry  (fetch_listings.py)
\* ------------------------------------------------------------------------
Calls == 1..NumCalls

max_retries == 5

Endpoints == [i \in 1..MaxProxies |-> <<"proxy", i>>]

None == <<>>

\* ProxyRotator.current
Current(ps, i) == IF ps # <<>> THEN ps[(i % Len(ps)) + 1] ELSE None

NextProxyTwice(i) == i + 2

\* ProxyRotator.next_proxy: self.idx += 1 under the lock
NextProxy(i) == i + 1

FetchInit ==
    /\ proxies \in {SubSeq(Endpoints, 1, n) : n \in 0..MaxProxies}
    /\ idx = 0
    /\ f_pc = [k \in Calls |-> "start"]
    /\ f_attempt = [k \in Calls |-> 0]
    /\ f_proxy = [k \in Calls |-> None]
    /\ f_failed = [k \in Calls |-> None]
    /\ f_last = [k \in Calls |-> "none"]

FetchOff ==
    /\ proxies = <<>>
    /\ idx = 0
    /\ f_pc = [k \in Calls |-> "off"]
    /\ f_attempt = [k \in Calls |-> 0]
    /\ f_proxy = [k \in Calls |-> None]
    /\ f_failed = [k \in Calls |-> None]
    /\ f_last = [k \in Calls |-> "none"]

\* One pass of the retry loop up to the await: connector = rotator.connector()
\* and the request is sent through it.
Attempt(k, n, i) ==
    /\ f_pc' = [f_pc EXCEPT ![k] = "await"]
    /\ f_attempt' = [f_attempt EXCEPT ![k] = n]
    /\ f_proxy' = [f_proxy EXCEPT ![k] = Current(proxies, i)]

\* The call starts: first pass of the loop.
FetchBegin(k) ==
    /\ f_pc[k] = "start"
    /\ Attempt(k, 1, idx)
    /\ UNCHANGED << proxies, idx, f_failed, f_last >>
    /\ UNCHANGED notFetch

\* The request of call k is answered: the page ("ok"), HTTP 403, or another
\* error.
FetchResponse(k) ==
    /\ f_pc[k] = "await"
    /\ \E resp \in {"ok", "403", "other"} :
         /\ f_last' = [f_last EXCEPT ![k] = resp]
         /\ IF resp = "ok"
            THEN /\ f_pc' = [f_pc EXCEPT ![k] = "returned"]
                 /\ UNCHANGED << idx, f_attempt, f_proxy, f_failed >>
            ELSE IF resp = "403" /\ proxies # <<>> /\ Len(proxies) > 1
            THEN /\ idx' = NextProxy(idx)
                 /\ f_failed' = [f_failed EXCEPT ![k] = f_proxy[k]]
                 /\ IF f_attempt[k] < max_retries
                    THEN Attempt(k, f_attempt[k] + 1, NextProxy(idx))
                    ELSE /\ f_pc' = [f_pc EXCEPT ![k] = "raised"]
                         /\ UNCHANGED << f_attempt, f_proxy >>
            ELSE /\ f_pc' = [f_pc EXCEPT ![k] = "raised"]
                 /\ UNCHANGED << idx, f_attempt, f_proxy, f_failed >>
    /\ UNCHANGED proxies
    /\ UNCHANGED notFetch

FetchNext ==
    \/ \E k \in Calls : FetchBegin(k)
    \/ \E k \in Calls : FetchResponse(k)

\* ------------------------------------------------------------------------
\* upsert_listings  (telegram_bot/database.py)
\* ------------------------------------------------------------------------
Titles == {"old", "new"}

\* A DataFrame: rows with the given item_ids; the rows of one DataFrame carry
\* the same field values.
Frame(ids, title) == [i \in DOMAIN ids |-> [item_id |-> ids[i], title |-> title]]

Batches ==
    {Frame(ids, t) : ids \in UNION {[1..n -> 1..MaxItemId] : n \in 0..MaxBatch},
                     t \in Titles}

\* DataFrame.drop_duplicates(subset=["item_id"], keep="last"): the rows that
\* have no later row with the same item_id, in their order.
RECURSIVE DropDuplicatesLast(_)
DropDuplicatesLast(df) ==
    IF df = <<>> THEN <<>>
    ELSE IF \E j \in 2..Len(df) : df[j].item_id = df[1].item_id
    THEN DropDuplicatesLast(Tail(df))
    ELSE <<df[1]>> \o DropDuplicatesLast(Tail(df))

MergeShrinksIgnored(merged, existing) == FALSE

\* if len(merged) < len(existing): ... raise ValueError
MergeShrinks(merged, existing) == Len(merged) < Len(existing)

\* The table right after init_db has created it.
DbInit ==
    /\ table = <<>>
    /\ db_prev = <<>>
    /\ db_batch = <<>>
    /\ db_ret = 0
    /\ db_exc = "nocall"
    /\ table_pk = TRUE
    /\ db_op = "none"
    /\ db_repeat = FALSE

DbOff == DbInit

\* merged.to_sql("listings", conn, if_exists="replace", index=False): the table
\* is dropped and created again from the DataFrame's columns, without the
\* PRIMARY KEY of init_db; init_db's CREATE TABLE IF NOT EXISTS then finds
\* the table and leaves it.
ToSqlReplace(merged) ==
    /\ table' = merged
    /\ table_pk' = FALSE

upsert_listings(df) ==
    /\ db_prev' = table
    /\ db_batch' = df
    /\ db_op' = "upsert"
    /\ db_repeat' = (db_op = "upsert" /\ db_exc = "none" /\ db_batch = df)
    /\ IF Len(df) = 0
       THEN /\ db_ret' = 0
            /\ db_exc' = "none"
            /\ UNCHANGED << table, table_pk >>
       ELSE LET existing == table IN
            IF Len(existing) > 0
            THEN LET merged == DropDuplicatesLast(existing \o df) IN
                 IF MergeShrinks(merged, existing)
                 THEN /\ db_exc' = "ValueError"
                      /\ db_ret' = db_ret
                      /\ UNCHANGED << table, table_pk >>
                 ELSE /\ ToSqlReplace(merged)
                      /\ db_ret' = Len(merged)
                      /\ db_exc' = "none"
            ELSE /\ ToSqlReplace(df)
                 /\ db_ret' = Len(df)
                 /\ db_exc' = "none"
    /\ UNCHANGED notDb

DbNext == \E df \in Batches : upsert_listings(df)

\* The rows of t whose item_id is not id, in their order.
RECURSIVE WithoutId(_, _)
WithoutId(t, id) ==
    IF t = <<>> THEN <<>>
    ELSE IF t[1].item_id = id THEN WithoutId(Tail(t), id)
    ELSE <<t[1]>> \o WithoutId(Tail(t), id)

\* INSERT OR REPLACE INTO listings: with the PRIMARY KEY the row of the same
\* item_id is deleted and the new row inserted; without it the statement is a
\* plain INSERT.
InsertOrReplace(t, pk, row) ==
    IF pk THEN Append(WithoutId(t, row.item_id), row) ELSE Append(t, row)

save_listing_to_db(row) ==
    /\ Len(table) < MaxBatch
    /\ db_prev' = table
    /\ db_batch' = <<row>>
    /\ db_op' = "save"
    /\ db_repeat' = FALSE
    /\ db_exc' = "none"
    /\ table' = InsertOrReplace(table, table_pk, row)
    /\ UNCHANGED << db_ret, table_pk >>
    /\ UNCHANGED notDb

\* The crawler's save_listing_to_db and the bot's upsert_listings on one file.
StoreNext ==
    \/ \E df \in Batches : upsert_listings(df)
    \/ \E ids \in [1..1 -> 1..MaxItemId], t \in Titles :
          save_listing_to_db(Frame(ids, t)[1])

\* ------------------------------------------------------------------------
\* MpScraper: adaptive delay and get_listings  (mpscraper/mpscraper.py)
\* ------------------------------------------------------------------------
adaptive_delay_min == 3        \* 0.3 s
adaptive_delay_max == 36000    \* 3600 s

NoMaxAge == -1                 \* max_age_hours is None

WATCH_MAX_AGE_HOURS == 30      \* 3.0 h

\* One res_listing: its itemId and the age its detail page reports.
Res(prefix, n, age) == [itemId |-> <<prefix, n>>, age |-> age]

\* A parent category without subcategories, three pages.
SiteParent ==
    << << << Res("a", 1, 5), Res("m", 1, 10), Res("m", 2, 20) >>,
          << Res("m", 3, 29), Res("a", 2, 5), Res("m", 4, 40), Res("m", 5, 5) >>,
          << Res("m", 8, 50), Res("m", 9, 60) >> >> >>

\* Two subcategories; m1 is listed in both.
SiteSubcats ==
    << << << Res("m", 1, 10), Res("a", 1, 5), Res("m", 6, 30) >> >>,
       << << Res("a", 2, 50), Res("m", 1, 10), Res("m", 7, 40) >> >> >>

\* Two subcategories; the first one holds a 4h listing.
SiteStaleFirst ==
    << << << Res("m", 4, 40) >> >>,
       << << Res("m", 5, 5) >> >> >>

\* A listing whose detail page has no usable timestamp, then a fresh one.
SiteNoAge == << << << Res("m", 2, NoAge), Res("m", 3, 5) >> >> >>

MpSites == {SiteParent, SiteSubcats, SiteStaleFirst, SiteNoAge}

MpItemIds == {<<"a", 1>>, <<"a", 2>>} \cup {<<"m", n>> : n \in 1..9}

MpSeenAtStart == {{}, {<<"m", 1>>}}

MpLimits == {0, 2}

\* What listings_count() can report for the parent category.
CountsOnSite == {0, 1, 3}

\* Values of __adaptive_success_count a session can have when a call starts.
SuccessesAtCall == {0, 7, 9}

\* The page the driver shows for (sub)category c, page number pg.
SitePage(c, pg) == IF pg <= Len(mp_site[c]) THEN mp_site[c][pg] ELSE <<>>

IsAdNever(item_id) == FALSE

\* item_id[0] == MARKTPLAATS_ADVERTISEMENT_PREFIX
IsAdvertisement(item_id) == item_id[1] = MARKTPLAATS_ADVERTISEMENT_PREFIX

SuccessesToResetMin(delay) == Min(3, 10 - ((delay \div 10) \div 10))

\* _adaptive_successes_to_reset: max(3, 10 - int(delay) // 10)
SuccessesToReset(delay) == Max(3, 10 - ((delay \div 10) \div 10))

AdaptiveOnSuccessToZero ==
    LET count == adaptive_success_count + 1
        threshold == SuccessesToReset(adaptive_delay)
    IN /\ since_block' = since_block + 1
       /\ IF count >= threshold
          THEN /\ adaptive_delay' = 0
               /\ adaptive_success_count' = 0
          ELSE /\ adaptive_delay' = adaptive_delay
               /\ adaptive_success_count' = count

\* _adaptive_on_success
AdaptiveOnSuccess ==
    LET count == adaptive_success_count + 1
        threshold == SuccessesToReset(adaptive_delay)
    IN /\ since_block' = since_block + 1
       /\ IF count >= threshold
          THEN /\ adaptive_delay' = adaptive_delay_min
               /\ adaptive_success_count' = 0
          ELSE /\ adaptive_delay' = adaptive_delay
               /\ adaptive_success_count' = count

AdaptiveOn403KeepsCount ==
    /\ adaptive_success_count' = adaptive_success_count
    /\ adaptive_delay' = adaptive_delay
    /\ since_block' = 0

\* _adaptive_on_403
AdaptiveOn403 ==
    /\ adaptive_success_count' = 0
    /\ adaptive_delay' = adaptive_delay
    /\ since_block' = 0

\* _recreate_driver_after_403
RecreateDriverAfter403 == driver_gen' = driver_gen + 1

\* get_listings up to the first `while`: lines 550-593.
MpInit ==
    /\ mp_site \in MpSites
    /\ mp_proxy \in BOOLEAN
    /\ mp_fast \in BOOLEAN
    /\ mp_max_age \in {NoMaxAge, WATCH_MAX_AGE_HOURS}
    /\ mp_existing \in MpSeenAtStart
    /\ adaptive_delay = 3
    /\ adaptive_success_count \in SuccessesAtCall
    /\ since_block = adaptive_success_count
    /\ driver_gen = 0
    /\ mp_pc = "while"
    /\ \E lim \in MpLimits :
         /\ mp_arg_limit = lim
         /\ listings_count \in CountsOnSite \cup (IF lim > 0 THEN {lim} ELSE {100})
         /\ mp_limit = IF lim > listings_count \/ lim = 0 THEN listings_count ELSE lim
    /\ max_listings = Max(mp_limit, 1)
    /\ listings = <<>>
    /\ item_ids = mp_existing
    /\ cat_idx = 1
    /\ current_page = 1
    /\ res_pos = 0
    /\ page_listings = <<>>
    /\ on_new_calls = <<>>
    /\ batched = {}
    /\ detail_fetched = {}
    /\ mp_blocks = 0
    /\ mp_misses = 0
    /\ miss_run = 0
    /\ detail_tries = 0

MpOff ==
    /\ mp_site = <<>>
    /\ mp_proxy = FALSE
    /\ mp_fast = FALSE
    /\ mp_max_age = NoMaxAge
    /\ mp_existing = {}
    /\ adaptive_delay = 3
    /\ adaptive_success_count = 0
    /\ since_block = 0
    /\ driver_gen = 0
    /\ mp_pc = "off"
    /\ listings_count = 0
    /\ mp_arg_limit = 0
    /\ mp_limit = 0
    /\ max_listings = 0
    /\ listings = <<>>
    /\ item_ids = {}
    /\ cat_idx = 0
    /\ current_page = 0
    /\ res_pos = 0
    /\ page_listings = <<>>
    /\ on_new_calls = <<>>
    /\ batched = {}
    /\ detail_fetched = {}
    /\ mp_blocks = 0
    /\ mp_misses = 0
    /\ miss_run = 0
    /\ detail_tries = 0

mpInputs == << mp_site, mp_proxy, mp_fast, mp_max_age, mp_existing,
               mp_limit, listings_count, mp_arg_limit >>

\* `break` out of the while loop: the for loop takes the next (sub)category.
NextCategory ==
    /\ cat_idx' = cat_idx + 1
    /\ current_page' = 1
    /\ mp_pc' = "while"

\* The while condition fails for this (sub)category.
MpNextCategory ==
    /\ mp_pc = "while"
    /\ cat_idx <= Len(mp_site)
    /\ ~(Len(listings) < max_listings)
    /\ NextCategory
    /\ UNCHANGED << mpInputs, adaptive_delay, adaptive_success_count, driver_gen,
                    max_listings, listings, item_ids, res_pos, page_listings,
                    on_new_calls, batched, detail_fetched, mp_blocks, mp_misses,
                    since_block >>
    /\ UNCHANGED << miss_run, detail_tries >>
    /\ UNCHANGED notMp

\* All (sub)categories done: return listings.
MpReturn ==
    /\ mp_pc = "while"
    /\ cat_idx > Len(mp_site)
    /\ mp_pc' = "returned"
    /\ UNCHANGED << mpInputs, adaptive_delay, adaptive_success_count, driver_gen,
                    max_listings, listings, item_ids, cat_idx, current_page,
                    res_pos, page_listings, on_new_calls, batched,
                    detail_fetched, mp_blocks, mp_misses, since_block >>
    /\ UNCHANGED << miss_run, detail_tries >>
    /\ UNCHANGED notMp

\* One pass of the while loop up to the for loop over res_listings: the page
\* loads with listings data ("ok"), is classified as blocked ("forbidden"),
\* has no data marker and no block signature ("miss"), or reports another
\* errorStatusCode ("status").
MpLoadPage ==
    /\ mp_pc = "while"
    /\ cat_idx <= Len(mp_site)
    /\ Len(listings) < max_listings
    /\ \E o \in {"ok", "forbidden", "miss", "status"} :
         /\ miss_run' = (IF o = "miss" THEN miss_run + 1 ELSE 0)
         /\ UNCHANGED detail_tries
         /\ CASE o = "ok" ->
                   /\ AdaptiveOnSuccess
                   /\ IF Len(SitePage(cat_idx, current_page)) = 0
                      THEN /\ NextCategory
                           /\ UNCHANGED << res_pos, page_listings >>
                      ELSE /\ mp_pc' = "item"
                           /\ res_pos' = 1
                           /\ page_listings' = <<>>
                           /\ UNCHANGED << cat_idx, current_page >>
                   /\ UNCHANGED << driver_gen, mp_blocks, mp_misses >>
              [] o = "forbidden" ->
                   /\ mp_blocks + mp_misses < MaxFailedLoads
                   /\ mp_blocks' = mp_blocks + 1
                   /\ AdaptiveOn403
                   /\ IF mp_proxy
                      THEN /\ mp_pc' = "ProxyError"
                           /\ UNCHANGED driver_gen
                      ELSE /\ RecreateDriverAfter403
                           /\ mp_pc' = "while"
                   /\ UNCHANGED << cat_idx, current_page, res_pos, page_listings,
                                   mp_misses >>
              [] o = "miss" ->
                   /\ mp_blocks + mp_misses < MaxFailedLoads
                   /\ mp_misses' = mp_misses + 1
                   /\ UNCHANGED << mp_pc, cat_idx, current_page, res_pos,
                                   page_listings, adaptive_delay,
                                   adaptive_success_count, since_block,
                                   driver_gen, mp_blocks >>
              [] o = "status" ->
                   /\ NextCategory
                   /\ UNCHANGED << res_pos, page_listings, adaptive_delay,
                                   adaptive_success_count, since_block,
                                   driver_gen, mp_blocks, mp_misses >>
    /\ UNCHANGED << mpInputs, max_listings, listings, item_ids, on_new_calls,
                    batched, detail_fetched >>
    /\ UNCHANGED notMp

CollectForgets(item_id) ==
    /\ on_new_calls' = Append(on_new_calls, item_id)
    /\ listings' = Append(listings, item_id)
    /\ page_listings' = Append(page_listings, item_id)
    /\ item_ids' = item_ids

\* on_new_listing(listing); listings.append; page_listings.append;
\* item_ids.add: lines 824-829.
Collect(item_id) ==
    /\ on_new_calls' = Append(on_new_calls, item_id)
    /\ listings' = Append(listings, item_id)
    /\ page_listings' = Append(page_listings, item_id)
    /\ item_ids' = SeenAdd(item_ids, item_id)

LimitReachedNever == FALSE

\* if len(listings) == limit: break
LimitReached == Len(listings) = mp_limit

\* One pass of the for loop over res_listings, up to the detail request, and
\* the end of the page after the loop.
MpItem ==
    /\ mp_pc = "item"
    /\ LET res_listings == SitePage(cat_idx, current_page) IN
       IF res_pos > Len(res_listings) \/ LimitReached
       THEN \* after the loop: on_batch, current_page += 1
            /\ batched' = batched \cup {page_listings[i] : i \in DOMAIN page_listings}
            /\ current_page' = current_page + 1
            /\ mp_pc' = "while"
            /\ UNCHANGED << res_pos, max_listings, listings, item_ids,
                            page_listings, on_new_calls, detail_fetched,
                            detail_tries >>
       ELSE LET item_id == res_listings[res_pos].itemId IN
            IF IsAdvertisement(item_id)
            THEN /\ res_pos' = res_pos + 1
                 /\ UNCHANGED << mp_pc, current_page, max_listings, listings,
                                 item_ids, page_listings, on_new_calls, batched,
                                 detail_fetched, detail_tries >>
            ELSE IF item_id \in item_ids
            THEN /\ max_listings' = IF mp_limit = listings_count
                                    THEN max_listings - 1 ELSE max_listings
                 /\ res_pos' = res_pos + 1
                 /\ UNCHANGED << mp_pc, current_page, listings, item_ids,
                                 page_listings, on_new_calls, batched,
                                 detail_fetched, detail_tries >>
            ELSE IF mp_fast
            THEN /\ Collect(item_id)
                 /\ res_pos' = res_pos + 1
                 /\ UNCHANGED << mp_pc, current_page, max_listings, batched,
                                 detail_fetched, detail_tries >>
            ELSE /\ mp_pc' = "detail"
                 /\ detail_fetched' = detail_fetched \cup {item_id}
                 /\ detail_tries' = 1
                 /\ UNCHANGED << res_pos, current_page, max_listings, listings,
                                 item_ids, page_listings, on_new_calls, batched >>
    /\ UNCHANGED << mpInputs, adaptive_delay, adaptive_success_count, driver_gen,
                    cat_idx, mp_blocks, mp_misses, since_block >>
    /\ UNCHANGED miss_run
    /\ UNCHANGED notMp

\* __get_listing_details, line 398:
\* datetime.fromisoformat(stats[LISTED_TIMESTAMP_KEY]).isoformat() raises
\* KeyError when the stats have no "since" and ValueError when it is no ISO
\* timestamp.  Neither is an MPError or ElementNotFound (741-745); the
\* page-level `except Exception` turns it into ListingsError (866-869).
RaisesOnTimestamp(age) == age = NoAge

\* The detail page of the current res_listing answers: with details ("ok"),
\* with a block ("forbidden") or with another failure ("fail").  Details
\* without a usable timestamp make __get_listing_details raise.
MpDetail ==
    /\ mp_pc = "detail"
    /\ LET item == SitePage(cat_idx, current_page)[res_pos] IN
       \E o \in {"ok", "forbidden", "fail"} :
         CASE o = "ok" ->
                IF RaisesOnTimestamp(item.age)
                THEN /\ mp_pc' = "ListingsError"
                     /\ UNCHANGED << res_pos, listings, item_ids, page_listings,
                                     on_new_calls, adaptive_delay,
                                     adaptive_success_count, since_block,
                                     driver_gen, max_listings, mp_blocks,
                                     mp_misses, detail_fetched, detail_tries >>
                ELSE /\ AdaptiveOnSuccess
                     /\ IF mp_max_age # NoMaxAge /\ item.age > mp_max_age
                        THEN /\ mp_pc' = "CategoryStale"
                             /\ UNCHANGED << res_pos, listings, item_ids,
                                             page_listings, on_new_calls >>
                        ELSE /\ Collect(item.itemId)
                             /\ res_pos' = res_pos + 1
                             /\ mp_pc' = "item"
                     /\ UNCHANGED << driver_gen, max_listings, mp_blocks,
                                     mp_misses, detail_fetched, detail_tries >>
           [] o = "forbidden" ->
                /\ mp_blocks + mp_misses < MaxFailedLoads
                /\ mp_blocks' = mp_blocks + 1
                /\ AdaptiveOn403
                /\ IF mp_proxy
                   THEN /\ mp_pc' = "ProxyError"
                        /\ UNCHANGED << driver_gen, detail_tries >>
                   ELSE /\ RecreateDriverAfter403
                        /\ mp_pc' = "detail"
                        /\ detail_tries' = detail_tries + 1
                /\ UNCHANGED << res_pos, listings, item_ids, page_listings,
                                on_new_calls, max_listings, mp_misses,
                                detail_fetched >>
           [] o = "fail" ->
                /\ mp_blocks + mp_misses < MaxFailedLoads
                /\ mp_misses' = mp_misses + 1
                /\ max_listings' = max_listings - 1
                /\ res_pos' = res_pos + 1
                /\ mp_pc' = "item"
                /\ UNCHANGED << listings, item_ids, page_listings, on_new_calls,
                                adaptive_delay, adaptive_success_count,
                                since_block, driver_gen, mp_blocks,
                                detail_fetched, detail_tries >>
    /\ UNCHANGED << mpInputs, cat_idx, current_page, batched >>
    /\ UNCHANGED miss_run
    /\ UNCHANGED notMp

\* KeyboardInterrupt (Ctrl-C, or SIGTERM through handle_sigterm_interrupt)
\* while the call waits for a page or a detail page, or runs the for loop:
\* the handler at line 863 raises ListingsInterrupt(listings=listings).
MpInterrupt ==
    /\ mp_pc \in {"while", "item", "detail"}
    /\ cat_idx <= Len(mp_site)
    /\ mp_pc' = "ListingsInterrupt"
    /\ UNCHANGED << mpInputs, adaptive_delay, adaptive_success_count, driver_gen,
                    max_listings, listings, item_ids, cat_idx, current_page,
                    res_pos, page_listings, on_new_calls, batched,
                    detail_fetched, mp_blocks, mp_misses, since_block, miss_run,
                    detail_tries >>
    /\ UNCHANGED notMp

\* The load is classified ForbiddenError with no proxy, and KeyboardInterrupt
\* arrives while the handler runs _recreate_driver_after_403 (its sleep(2) or
\* the start of the new browser).  Raised in the handler of the page-level try
\* (line 836) it is not seen by that try's other handlers and leaves
\* get_listings as it is; raised in the handler of the detail loop (line 737)
\* it reaches lines 749 and 863 and becomes ListingsInterrupt.
MpInterruptInHandler ==
    /\ mp_pc \in {"while", "detail"}
    /\ cat_idx <= Len(mp_site)
    /\ mp_pc = "while" => Len(listings) < max_listings
    /\ ~mp_proxy
    /\ mp_blocks + mp_misses < MaxFailedLoads
    /\ mp_blocks' = mp_blocks + 1
    /\ miss_run' = 0
    /\ AdaptiveOn403
    /\ mp_pc' = IF mp_pc = "while" THEN "KeyboardInterrupt" ELSE "ListingsInterrupt"
    /\ UNCHANGED << mpInputs, driver_gen, max_listings, listings, item_ids,
                    cat_idx, current_page, res_pos, page_listings, on_new_calls,
                    batched, detail_fetched, mp_misses, detail_tries >>
    /\ UNCHANGED notMp

MpNext ==
    \/ MpLoadPage
    \/ MpItem
    \/ MpDetail
    \/ MpNextCategory
    \/ MpReturn

\* ------------------------------------------------------------------------
\* extract_config  (fetch_listings.py)
\* ------------------------------------------------------------------------
\* A text is a sequence of characters.  "q" is the double quote, "k" a quoted
\* key, "W" the text window.__CONFIG__, "x" any other character.
StringChars == {"{", "}", "x"}

Strings == UNION {[1..n -> StringChars] : n \in 0..MaxStr}

Quoted(str) == <<"q">> \o str \o <<"q">>

\* The text of the payload {"k": s1, "k": {"k": s2}}.
PayloadText(s1, s2) ==
    <<"{", "k", ":">> \o Quoted(s1) \o <<",", "k", ":", "{", "k", ":">>
        \o Quoted(s2) \o <<"}", "}">>

\* What precedes the assignment and what follows the payload in the page.
HtmlBefore == {<<>>, <<"{", "x", "}">>}
HtmlAfter == {<<>>, <<";">>, <<";", "{", "x", "}">>}

\* json.loads.  A parse result is [ok, val, next]: val is [s |-> characters]
\* for a string and [o |-> member values] for an object, next the position
\* after the value.
ParseFail == [ok |-> FALSE, val |-> <<>>, next |-> 0]

\* t[p] is an opening quote: the string runs to the next quote.
ParseString(t, p) ==
    IF \E j \in (p + 1)..Len(t) : t[j] = "q"
    THEN LET j == CHOOSE j \in (p + 1)..Len(t) :
                      t[j] = "q" /\ \A i \in (p + 1)..(j - 1) : t[i] # "q"
         IN [ok |-> TRUE, val |-> [s |-> SubSeq(t, p + 1, j - 1)], next |-> j + 1]
    ELSE ParseFail

RECURSIVE ParseValue(_, _)
RECURSIVE ParseMembers(_, _, _)

\* Members of an object from position p (after "{" or ","), acc the values
\* parsed so far.
ParseMembers(t, p, acc) ==
    IF p + 2 > Len(t) \/ t[p] # "k" \/ t[p + 1] # ":" THEN ParseFail
    ELSE LET v == ParseValue(t, p + 2) IN
         IF ~v.ok \/ v.next > Len(t) THEN ParseFail
         ELSE IF t[v.next] = "," THEN ParseMembers(t, v.next + 1, Append(acc, v.val))
         ELSE IF t[v.next] = "}"
         THEN [ok |-> TRUE, val |-> [o |-> Append(acc, v.val)], next |-> v.next + 1]
         ELSE ParseFail

ParseValue(t, p) ==
    IF p > Len(t) THEN ParseFail
    ELSE IF t[p] = "q" THEN ParseString(t, p)
    ELSE IF t[p] = "{"
    THEN IF p + 1 <= Len(t) /\ t[p + 1] = "}"
         THEN [ok |-> TRUE, val |-> [o |-> <<>>], next |-> p + 2]
         ELSE ParseMembers(t, p + 1, <<>>)
    ELSE ParseFail

\* json.loads(text): one value and nothing after it, else JSONDecodeError.
\* The result is [ok, val].
JsonLoads(text) ==
    LET v == ParseValue(text, 1) IN
    IF v.ok /\ v.next = Len(text) + 1
    THEN [ok |-> TRUE, val |-> v.val]
    ELSE [ok |-> FALSE, val |-> <<>>]

\* extract_config returned None
ConfigNone == [ok |-> FALSE, val |-> <<>>]

\* str.find(ch, from): the first position >= from holding ch, 0 if none.
Find(html, ch, from) ==
    IF \E i \in from..Len(html) : html[i] = ch
    THEN CHOOSE i \in from..Len(html) :
             html[i] = ch /\ \A j \in from..(i - 1) : html[j] # ch
    ELSE 0

\* The for loop of extract_config from position i.
RECURSIVE BraceScan(_, _, _, _)
BraceScan(html, i, depth, json_start) ==
    IF i > Len(html) THEN ConfigNone
    ELSE IF html[i] = "{"
    THEN BraceScan(html, i + 1, depth + 1, IF depth = 0 THEN i ELSE json_start)
    ELSE IF html[i] = "}"
    THEN IF depth - 1 = 0
         THEN JsonLoads(SubSeq(html, json_start, i))
         ELSE BraceScan(html, i + 1, depth - 1, json_start)
    ELSE BraceScan(html, i + 1, depth, json_start)

extract_config(html) ==
    LET at == Find(html, "W", 1) IN
    IF at = 0 THEN ConfigNone
    ELSE LET eq == Find(html, "=", at) IN
         IF eq = 0 THEN ConfigNone
         ELSE BraceScan(html, eq + 1, 0, -1)

\* A detail page that assigns a payload to window.__CONFIG__.
CfgInit ==
    /\ \E s1 \in Strings, s2 \in Strings : cfg_text = PayloadText(s1, s2)
    /\ \E before \in HtmlBefore, after \in HtmlAfter :
         cfg_html = before \o <<"W", "=">> \o cfg_text \o after
    /\ cfg_pc = "call"
    /\ cfg_out = ConfigNone

CfgOff ==
    /\ cfg_text = <<>>
    /\ cfg_html = <<>>
    /\ cfg_pc = "off"
    /\ cfg_out = ConfigNone

ExtractConfig ==
    /\ cfg_pc = "call"
    /\ cfg_out' = extract_config(cfg_html)
    /\ cfg_pc' = "returned"
    /\ UNCHANGED << cfg_text, cfg_html >>
    /\ UNCHANGED notCfg

\* ------------------------------------------------------------------------
\* get_categories  (fetch_listings.py)
\* ------------------------------------------------------------------------
\* A path is a sequence of tokens: "/" and the texts between the slashes.
MARTKPLAATS_BASE_URL == "https://marktplaats.nl"
SORT_HASH == "#offeredSince:Altijd|sortBy:SORT_INDEX|sortOrder:DECREASING"

\* CP_TO_L_SLUG.get(slug, slug)
CP_TO_L_SLUG(slug) == IF slug = <<"auto-kopen">> THEN <<"auto-s">> ELSE slug

\* s.startswith(pre)
StartsWith(s, pre) == Len(s) >= Len(pre) /\ SubSeq(s, 1, Len(pre)) = pre

\* s.rstrip("/")
RECURSIVE RStrip(_)
RStrip(s) ==
    IF s # <<>> /\ s[Len(s)] = "/" THEN RStrip(SubSeq(s, 1, Len(s) - 1)) ELSE s

\* s.split("/"): the texts between the slashes, empty ones included
RECURSIVE Split(_, _, _)
Split(s, cur, acc) ==
    IF s = <<>> THEN Append(acc, cur)
    ELSE IF Head(s) = "/" THEN Split(Tail(s), <<>>, Append(acc, cur))
    ELSE Split(Tail(s), Append(cur, Head(s)), acc)

\* int(text): the number, or ValueError for a text that is not one
ValueError == -1
IntOf(text) ==
    CASE text = <<"91">> -> 91
      [] text = <<"31">> -> 31
      [] OTHER -> ValueError

\* f"{MARTKPLAATS_BASE_URL}/l/{l_slug}/p/1/{SORT_HASH}"
ListingUrl(l_slug) ==
    <<MARTKPLAATS_BASE_URL, "/", "l", "/">> \o l_slug
        \o <<"/", "p", "/", "1", "/", SORT_HASH>>

\* The hrefs and urls of the inputs.
Paths ==
    { <<"/", "cp", "/", "91", "/", "auto-kopen", "/">>,
      <<"/", "cp", "/", "91", "/", "auto-kopen">>,
      <<"/", "cp", "/", "31", "/", "boeken", "/">>,
      <<"/", "cp", "/", "nieuw", "/", "boeken", "/">>,
      <<"/", "cp", "/", "31", "/">>,
      <<"/", "l", "/", "boeken", "/">>,
      <<"/", "cp", "/", "31", "/", "boeken", "/", "strips", "/">> }

NoText == <<>>
Texts == {NoText, <<"Boeken">>}

\* soup.find("ul", class_="hz-CategoryMenuBar-list") finds nothing
NoMenu == [ul |-> FALSE, links |-> <<>>]
NavLinks == [href : Paths, text : Texts]

\* link.get("id", 0): 0 stands for a link without an id
LinkIds == {0, 31, 91}
NoName == <<>>
ConfigLinks == [url : Paths, id : LinkIds, name : {NoName, <<"Boeken">>}]

\* Sequences of at most n elements of S.
SeqsUpTo(S, n) == UNION {[1..k -> S] : k \in 0..n}

\* One pass of the loop over the menu links: the tuple appended, or <<>>
\* when the link is skipped.
HtmlCategory(a) ==
    IF ~StartsWith(a.href, <<"/", "cp", "/">>) THEN <<>>
    ELSE LET parts == Split(RStrip(a.href), <<>>, <<>>) IN
         IF Len(parts) < 4 THEN <<>>
         ELSE IF IntOf(parts[3]) = ValueError THEN <<>>
         ELSE LET slug == parts[4]
                  l_slug == CP_TO_L_SLUG(slug)
                  name == IF a.text # NoText THEN a.text ELSE slug
              IN << <<IntOf(parts[3]), name, ListingUrl(l_slug)>> >>

\* One pass of the loop over categoryLinks.
ConfigCategory(link) ==
    IF ~StartsWith(link.url, <<"/", "cp", "/">>) THEN <<>>
    ELSE LET parts == Split(RStrip(link.url), <<>>, <<>>)
             slug == IF Len(parts) >= 4 THEN parts[Len(parts)] ELSE <<>>
         IN IF slug = <<>> THEN <<>>
            ELSE LET name == IF link.name # NoName THEN link.name ELSE slug
                     l_slug == CP_TO_L_SLUG(slug)
                 IN << <<link.id, name, ListingUrl(l_slug)>> >>

\* The result list: what the passes of the loop appended, in order.
RECURSIVE Appended(_)
Appended(passes) ==
    IF passes = <<>> THEN <<>> ELSE Head(passes) \o Appended(Tail(passes))

\* _get_categories_from_html
GetCategoriesFromHtml(nav) ==
    IF ~nav.ul THEN <<>>
    ELSE Appended([i \in DOMAIN nav.links |-> HtmlCategory(nav.links[i])])

\* _get_categories_from_config
GetCategoriesFromConfig(config) ==
    IF ~config.ok THEN <<>>
    ELSE Appended([i \in DOMAIN config.val |-> ConfigCategory(config.val[i])])

get_categories_config_first(nav, config) ==
    LET result == GetCategoriesFromConfig(config) IN
    IF result # <<>> THEN result ELSE GetCategoriesFromHtml(nav)

\* get_categories
get_categories(nav, config) ==
    LET result == GetCategoriesFromHtml(nav) IN
    IF result # <<>> THEN result ELSE GetCategoriesFromConfig(config)

CatInit ==
    /\ cat_nav \in {NoMenu}
          \cup {[ul |-> TRUE, links |-> l] : l \in SeqsUpTo(NavLinks, MaxLinks)}
    /\ cat_config \in {ConfigNone}
          \cup {[ok |-> TRUE, val |-> l] : l \in SeqsUpTo(ConfigLinks, MaxLinks)}
    /\ cat_pc = "call"
    /\ cat_out = <<>>

CatOff ==
    /\ cat_nav = NoMenu
    /\ cat_config = ConfigNone
    /\ cat_pc = "off"
    /\ cat_out = <<>>

GetCategories ==
    /\ cat_pc = "call"
    /\ cat_out' = get_categories(cat_nav, cat_config)
    /\ cat_pc' = "returned"
    /\ UNCHANGED << cat_nav, cat_config >>
    /\ UNCHANGED notCat

\* ------------------------------------------------------------------------
\* main (sequential mode) and _worker_scrape_categories  (mpscraper/__main__.py)
\* ------------------------------------------------------------------------
\* The categories of the run and the item_ids each one lists.
RunSite == << <<1, 2>>, <<3>> >>

RunSeenAtStart == {{}, {1}}

RotateNone(ps, w) == IF ps = <<>> THEN <<None>> ELSE ps

\* proxies_to_try of the worker: [None] without proxies, else
\* proxies[worker_id:] + proxies[:worker_id].
Rotate(ps, w) ==
    IF ps = <<>> THEN <<None>>
    ELSE SubSeq(ps, w + 1, Len(ps)) \o SubSeq(ps, 1, Min(w, Len(ps)))

SeqToSet(q) == {q[i] : i \in DOMAIN q}

\* The elements of q that are not in S, in their order.
RECURSIVE Unseen(_, _)
Unseen(q, S) ==
    IF q = <<>> THEN <<>>
    ELSE IF q[1] \in S THEN Unseen(Tail(q), S)
    ELSE <<q[1]>> \o Unseen(Tail(q), S)

\* How a get_listings call can end.  `got` are the listings it returns or its
\* exception carries, `batches` the listings it has passed to on_batch.
\* Proxy: ProxyError is raised only by a scraper that has a proxy.
\* KeyboardInterrupt reaches only the main thread.
GetListingsEnds(c, existing, proxy, mode) ==
    LET new == Unseen(RunSite[c], existing)
        prefixes == {SubSeq(new, 1, k) : k \in 0..Len(new)}
        on_batch(got) == IF mode = "main"
                         THEN {SubSeq(got, 1, j) : j \in 0..Len(got)}
                         ELSE {<<>>}
    IN {[o |-> "return", got |-> g, batches |-> (IF mode = "main" THEN g ELSE <<>>)] :
            g \in prefixes}
       \cup {[o |-> o, got |-> g, batches |-> b] :
            o \in {"CategoryStale", "ListingsError", "ListingsInterrupt"},
            g \in prefixes, b \in UNION {on_batch(g2) : g2 \in prefixes}}
       \cup {[o |-> o, got |-> <<>>, batches |-> b] :
            o \in {"ForbiddenError", "WebDriverException"}
                  \cup (IF proxy # None THEN {"ProxyError"} ELSE {})
                  \cup (IF mode = "main" THEN {"KeyboardInterrupt"} ELSE {}),
            b \in UNION {on_batch(g2) : g2 \in prefixes}}

RunInit ==
    /\ run_mode \in {"main", "worker"}
    /\ args_proxies \in {SubSeq(Endpoints, 1, n) : n \in 0..MaxProxies}
    /\ worker_id \in IF run_mode = "worker" THEN 0..MaxProxies ELSE {0}
    /\ item_ids0 \in RunSeenAtStart
    /\ proxies_to_try = IF run_mode = "worker"
                        THEN Rotate(args_proxies, worker_id)
                        ELSE IF args_proxies = <<>> THEN <<None>> ELSE args_proxies
    /\ run_try = 1
    /\ run_pc = "new"
    /\ run_cat = 0
    /\ run_stop = FALSE
    /\ run_item_ids = item_ids0
    /\ run_listings = <<>>
    /\ save_df = {}
    /\ listings_df = item_ids0
    /\ run_store = {}
    /\ run_sessions = <<>>
    /\ run_fails = 0
    /\ run_called = {}
    /\ run_err = {}
    /\ run_intr = {}
    /\ run_returned = {}

RunOff ==
    /\ run_mode = "off"
    /\ args_proxies = <<>>
    /\ worker_id = 0
    /\ item_ids0 = {}
    /\ proxies_to_try = <<>>
    /\ run_try = 0
    /\ run_pc = "off"
    /\ run_cat = 0
    /\ run_stop = FALSE
    /\ run_item_ids = {}
    /\ run_listings = <<>>
    /\ save_df = {}
    /\ listings_df = {}
    /\ run_store = {}
    /\ run_sessions = <<>>
    /\ run_fails = 0
    /\ run_called = {}
    /\ run_err = {}
    /\ run_intr = {}
    /\ run_returned = {}

runInputs == << run_mode, worker_id, args_proxies, item_ids0, proxies_to_try >>

\* `continue` of `for proxy in proxies_to_try` after a proxy failure; when the
\* list is used up the loop ends: the worker returns all_listings, main goes
\* on to its last save.
NextTry ==
    /\ run_fails' = run_fails + 1
    /\ run_try' = run_try + 1
    /\ run_cat' = 0
    /\ run_pc' = IF run_try < Len(proxies_to_try) THEN "new"
                 ELSE IF run_mode = "main" THEN "after" ELSE "returned"

\* The loop over the categories is left (after the last category, by `break`
\* or by `stop`) and then the loop over the proxies by `break`.
CategoriesDone ==
    /\ run_pc' = IF run_mode = "main" THEN "after" ELSE "returned"
    /\ run_cat' = run_cat
    /\ UNCHANGED << run_try, run_fails >>

\* MpScraper(...) for the current proxy: the session opens ("ok"), the
\* constructor raises a WebDriverException that names the proxy
\* ("proxy_fail"), or it raises another one ("crash").
RunOpen ==
    /\ run_pc = "new"
    /\ LET proxy == proxies_to_try[run_try] IN
       /\ run_sessions' = Append(run_sessions, proxy)
       /\ \E o \in {"ok", "crash"} \cup (IF proxy # None THEN {"proxy_fail"} ELSE {}) :
            CASE o = "ok" ->
                   /\ run_pc' = "call"
                   /\ run_cat' = 1
                   /\ run_called' = {}
                   /\ run_stop' = FALSE
                   /\ run_item_ids' = IF run_mode = "worker" THEN item_ids0
                                      ELSE run_item_ids
                   /\ save_df' = IF run_mode = "main" THEN listings_df ELSE save_df
                   /\ UNCHANGED << run_try, run_fails >>
              [] o = "proxy_fail" ->
                   /\ NextTry
                   /\ UNCHANGED << run_called, run_stop, run_item_ids, save_df >>
              [] o = "crash" ->
                   /\ run_pc' = "raised"
                   /\ UNCHANGED << run_try, run_fails, run_cat, run_called,
                                   run_stop, run_item_ids, save_df >>
    /\ UNCHANGED << runInputs, run_listings, listings_df, run_store, run_err,
                    run_intr, run_returned >>
    /\ UNCHANGED notRun

\* The get_listings call of the worker for its current category, and the
\* handler that takes its end.
WorkerCall(r) ==
    LET got == SeqToSet(r.got)
        last == run_cat = Len(RunSite)
    IN
    /\ UNCHANGED << run_stop, save_df, listings_df >>
    /\ CASE r.o \in {"return", "CategoryStale"} ->
               /\ run_item_ids' = run_item_ids \cup got
               /\ run_listings' = run_listings \o r.got
               /\ IF last THEN CategoriesDone
                  ELSE /\ run_cat' = run_cat + 1
                       /\ UNCHANGED << run_pc, run_try, run_fails >>
         [] r.o \in {"ListingsError", "ListingsInterrupt"} ->
               /\ run_listings' = run_listings \o r.got
               /\ CategoriesDone
               /\ UNCHANGED run_item_ids
         [] r.o = "ProxyError" ->
               /\ NextTry
               /\ UNCHANGED << run_item_ids, run_listings >>
         [] r.o = "ForbiddenError" ->
               /\ IF proxies_to_try[run_try] # None
                  THEN NextTry
                  ELSE /\ run_pc' = "raised"
                       /\ UNCHANGED << run_try, run_fails, run_cat >>
               /\ UNCHANGED << run_item_ids, run_listings >>
         [] r.o = "WebDriverException" ->
               /\ run_pc' = "raised"
               /\ UNCHANGED << run_try, run_fails, run_cat, run_item_ids,
                               run_listings >>

\* The get_listings call of main for its current category: _on_batch for the
\* batches, the handler that takes the call's end, the save after the
\* handlers, and the head of the next pass of the loop (`if stop: break`).
MainCall(r) ==
    LET got == SeqToSet(r.got)
        df == save_df \cup SeqToSet(r.batches)
        last == run_cat = Len(RunSite)
    IN
    /\ UNCHANGED run_listings
    /\ CASE r.o \in {"return", "CategoryStale"} ->
               /\ run_item_ids' = run_item_ids \cup got
               /\ save_df' = df \cup got
               /\ UNCHANGED run_stop
               /\ IF last
                  THEN /\ CategoriesDone
                       /\ listings_df' = df \cup got
                  ELSE /\ run_cat' = run_cat + 1
                       /\ UNCHANGED << run_pc, run_try, run_fails, listings_df >>
         [] r.o \in {"ListingsError", "ListingsInterrupt", "KeyboardInterrupt"} ->
               /\ run_stop' = TRUE
               /\ save_df' = df \cup got
               /\ listings_df' = df \cup got
               /\ CategoriesDone
               /\ UNCHANGED run_item_ids
         [] r.o = "ProxyError" ->
               /\ NextTry
               /\ save_df' = df
               /\ UNCHANGED << run_item_ids, run_stop, listings_df >>
         [] r.o = "ForbiddenError" ->
               /\ IF proxies_to_try[run_try] # None
                  THEN NextTry
                  ELSE /\ run_pc' = "raised"
                       /\ UNCHANGED << run_try, run_fails, run_cat >>
               /\ save_df' = df
               /\ UNCHANGED << run_item_ids, run_stop, listings_df >>
         [] r.o = "WebDriverException" ->
               /\ run_pc' = "raised"
               /\ save_df' = df
               /\ listings_df' = df
               /\ UNCHANGED << run_try, run_fails, run_cat, run_item_ids,
                               run_stop >>

RunCall ==
    /\ run_pc = "call"
    /\ \E r \in GetListingsEnds(run_cat, run_item_ids, proxies_to_try[run_try],
                                 run_mode) :
         /\ run_called' = run_called \cup {run_cat}
         /\ run_err' = IF r.o = "ListingsError" THEN run_err \cup {run_cat}
                       ELSE run_err
         /\ run_intr' = IF r.o = "ListingsInterrupt"
                        THEN run_intr \cup SeqToSet(r.got) ELSE run_intr
         /\ run_returned' = IF r.o = "return"
                            THEN run_returned \cup SeqToSet(r.got)
                            ELSE run_returned
         /\ IF run_mode = "worker" THEN WorkerCall(r) ELSE MainCall(r)
    /\ UNCHANGED << runInputs, run_store, run_sessions >>
    /\ UNCHANGED notRun

\* The end of main: upsert_listings(listings_df) when it has rows.
RunFinal ==
    /\ run_pc = "after"
    /\ run_store' = IF listings_df # {} THEN listings_df ELSE run_store
    /\ run_pc' = "returned"
    /\ UNCHANGED << runInputs, run_try, run_cat, run_stop, run_item_ids,
                    run_listings, save_df, listings_df, run_sessions, run_fails,
                    run_called, run_err, run_intr, run_returned >>
    /\ UNCHANGED notRun

RunNext ==
    \/ RunOpen
    \/ RunCall
    \/ RunFinal

\* ------------------------------------------------------------------------
\* main, parallel mode  (mpscraper/__main__.py)
\* ------------------------------------------------------------------------
\* workers = min(args.workers, len(parent_categories_list))
ParWorkers == Min(par_workers, par_ncats)

RECURSIVE SumOverWorkers(_, _)
SumOverWorkers(got, n) == IF n = 0 THEN 0 ELSE got[n] + SumOverWorkers(got, n - 1)

\* limit_per_worker = ((args.limit + workers - 1) // workers) if args.limit > 0 else 0
LimitPerWorker(lim, workers) ==
    IF lim > 0 THEN (lim + workers - 1) \div workers ELSE 0

\* chunks[i % workers].append(cat): the size of worker w's chunk (w from 1)
ChunkSize(w) ==
    Cardinality({i \in 0..(par_ncats - 1) : i % ParWorkers = w - 1})

\* How many listings one get_listings(limit=lim) call can hand back for a
\* category holding onsite new listings: at most lim of them, all of them
\* when lim = 0.
GetListingsCounts(lim, onsite) ==
    0..(IF lim > 0 THEN Min(lim, onsite) ELSE onsite)

ParInit ==
    /\ par_limit \in 0..MaxLimit
    /\ par_workers \in 2..MaxWorkers
    /\ par_ncats \in 1..(MaxCats + 1)
    /\ par_onsite \in 1..MaxLimit
    /\ par_next = [w \in 1..MaxWorkers |-> 0]
    /\ par_got = [w \in 1..MaxWorkers |-> 0]
    /\ par_total = -1

ParOff ==
    /\ par_limit = 0
    /\ par_workers = 0
    /\ par_ncats = 0
    /\ par_onsite = 0
    /\ par_next = [w \in 1..MaxWorkers |-> 0]
    /\ par_got = [w \in 1..MaxWorkers |-> 0]
    /\ par_total = -2

\* Worker w passes the next category of its chunk to get_listings with
\* limit=limit_per_worker; the listings returned (or carried by
\* CategoryStale) are added to its all_listings and put on the queue.
ParGetListings(w) ==
    /\ par_total = -1
    /\ w \in 1..ParWorkers
    /\ par_next[w] < ChunkSize(w)
    /\ \E n \in GetListingsCounts(LimitPerWorker(par_limit, ParWorkers), par_onsite) :
         par_got' = [par_got EXCEPT ![w] = @ + n]
    /\ par_next' = [par_next EXCEPT ![w] = @ + 1]
    /\ UNCHANGED << par_limit, par_workers, par_ncats, par_onsite, par_total >>
    /\ UNCHANGED notPar

\* Every future has completed: all_listings.extend(future.result()).
ParJoin ==
    /\ par_total = -1
    /\ \A w \in 1..ParWorkers : par_next[w] = ChunkSize(w)
    /\ par_total' = SumOverWorkers(par_got, ParWorkers)
    /\ UNCHANGED << par_limit, par_workers, par_ncats, par_onsite, par_next,
                    par_got >>
    /\ UNCHANGED notPar

ParNext ==
    \/ \E w \in 1..MaxWorkers : ParGetListings(w)
    \/ ParJoin

\* ------------------------------------------------------------------------
\* run_watch_loop  (telegram_bot/watch_runner.py)
\* ------------------------------------------------------------------------
\* The parent categories and the item_ids each one lists; 2 is listed in both.
WatchSite == << <<1, 2>>, <<2, 3>> >>

WatchStoredAtStart == {{}, {1}}

OnNewAlways(st, item_id) ==
    [sent |-> st.sent \cup {item_id}, q |-> Append(st.q, item_id)]

\* on_new(listing): return if the id is in sent_item_ids, else add it and
\* put the listing on new_listing_queue (a failing upsert_listings is logged).
OnNew(st, item_id) ==
    IF item_id \in st.sent THEN st
    ELSE [sent |-> st.sent \cup {item_id}, q |-> Append(st.q, item_id)]

\* on_new applied to the listings of one get_listings call, in their order.
RECURSIVE OnNewAll(_, _)
OnNewAll(ids, st) ==
    IF ids = <<>> THEN st ELSE OnNewAll(Tail(ids), OnNew(st, ids[1]))

\* _, sent_item_ids = load_listings_from_db(db_path); mp_scraper = None
WatchInit ==
    /\ wl_stored \in WatchStoredAtStart
    /\ sent_item_ids = wl_stored
    /\ new_listing_queue = <<>>
    /\ wl_scraper = FALSE
    /\ wl_opened = 0
    /\ wl_pc = "loop"
    /\ wl_cat = 0
    /\ wl_rounds = 0

WatchOff ==
    /\ wl_stored = {}
    /\ sent_item_ids = {}
    /\ new_listing_queue = <<>>
    /\ wl_scraper = FALSE
    /\ wl_opened = 0
    /\ wl_pc = "off"
    /\ wl_cat = 0
    /\ wl_rounds = 0

\* mp_scraper.close(); mp_scraper = None
CloseScraper == wl_scraper' = FALSE

\* A pass of the while loop up to the for loop: the scraper is created when
\* there is none, and get_parent_categories is called.  Either can raise
\* ProxyError or another exception; both handlers close the scraper.
WatchRound ==
    /\ wl_pc = "loop"
    /\ wl_rounds < MaxRounds
    /\ wl_rounds' = wl_rounds + 1
    /\ \E o \in {"ok", "open_fails", "ProxyError", "Exception"} :
         /\ wl_opened' = IF ~wl_scraper /\ o # "open_fails"
                         THEN wl_opened + 1 ELSE wl_opened
         /\ o = "open_fails" => ~wl_scraper
         /\ IF o = "ok"
            THEN /\ wl_scraper' = TRUE
                 /\ wl_pc' = "cats"
                 /\ wl_cat' = 1
            ELSE /\ CloseScraper
                 /\ wl_pc' = "loop"
                 /\ wl_cat' = 0
    /\ UNCHANGED << wl_stored, sent_item_ids, new_listing_queue >>
    /\ UNCHANGED notWatch

\* get_listings(parent, existing_item_ids=set(), on_new_listing=on_new) for
\* the current category: it calls on_new for a prefix of the category's
\* listings and returns, raises CategoryStale (next category), ProxyError or
\* another exception (the scraper is closed, the pass ends).
WatchGetListings ==
    /\ wl_pc = "cats"
    /\ wl_cat <= Len(WatchSite)
    /\ \E k \in 0..Len(WatchSite[wl_cat]),
          o \in {"return", "CategoryStale", "ProxyError", "Exception"} :
         LET st == OnNewAll(SubSeq(WatchSite[wl_cat], 1, k),
                            [sent |-> sent_item_ids, q |-> new_listing_queue])
         IN /\ sent_item_ids' = st.sent
            /\ new_listing_queue' = st.q
            /\ IF o \in {"return", "CategoryStale"}
               THEN /\ UNCHANGED wl_scraper
                    /\ IF wl_cat < Len(WatchSite)
                       THEN /\ wl_cat' = wl_cat + 1
                            /\ wl_pc' = "cats"
                       ELSE /\ wl_cat' = 0
                            /\ wl_pc' = "loop"
               ELSE /\ CloseScraper
                    /\ wl_cat' = 0
                    /\ wl_pc' = "loop"
    /\ UNCHANGED << wl_stored, wl_opened, wl_rounds >>
    /\ UNCHANGED notWatch

\* stop_event is set: the for loop breaks, the while loop ends and the
\* scraper is closed.
WatchStop ==
    /\ wl_pc \in {"loop", "cats"}
    /\ wl_pc' = "stopped"
    /\ wl_cat' = 0
    /\ CloseScraper
    /\ UNCHANGED << wl_stored, sent_item_ids, new_listing_queue, wl_opened,
                    wl_rounds >>
    /\ UNCHANGED notWatch

WatchNext ==
    \/ WatchRound
    \/ WatchGetListings
    \/ WatchStop

\* ------------------------------------------------------------------------
\* send_listing_to_next_worker  (telegram_bot/telegram_sender.py, database.py)
\* ------------------------------------------------------------------------
NoWorker == 0

UserIds == 1..3

\* ORDER BY user_id: the on-shift sets as ascending lists.
RECURSIVE Ascending(_)
Ascending(S) ==
    IF S = {} THEN <<>>
    ELSE LET m == CHOOSE x \in S : \A y \in S : x <= y
         IN <<m>> \o Ascending(S \ {m})

\* workers.index(last_id)
IndexOf(ws, u) == CHOOSE i \in DOMAIN ws : ws[i] = u

\* get_next_worker_for_listing: None without workers, workers[0] when the
\* stored id is missing or not on shift, else the one after it, cyclically.
get_next_worker_for_listing(ws, last_id) ==
    IF ws = <<>> THEN NoWorker
    ELSE IF last_id = NoWorker \/ last_id \notin SeqToSet(ws) THEN ws[1]
    ELSE ws[(IndexOf(ws, last_id) % Len(ws)) + 1]

RrInit ==
    /\ on_shift \in {Ascending(S) : S \in SUBSET UserIds}
    /\ last_worker_id \in {NoWorker} \cup UserIds
    /\ rr_offered = <<>>
    /\ rr_ok = <<>>

RrOff ==
    /\ on_shift = <<>>
    /\ last_worker_id = NoWorker
    /\ rr_offered = <<>>
    /\ rr_ok = <<>>

\* if ok: set_last_worker_sent(db, user_id)
SetLast(ok, user_id) == IF ok THEN user_id ELSE last_worker_id

\* One send_listing_to_next_worker call: nobody on shift (returns False), or
\* send_listing_to_telegram is called for the next worker and returns ok.
Dispatch ==
    /\ Len(rr_offered) < MaxDispatches
    /\ LET user_id == get_next_worker_for_listing(on_shift, last_worker_id) IN
       IF user_id = NoWorker
       THEN UNCHANGED << last_worker_id, rr_offered, rr_ok >>
       ELSE \E ok \in BOOLEAN :
              /\ rr_offered' = Append(rr_offered, user_id)
              /\ rr_ok' = Append(rr_ok, ok)
              /\ last_worker_id' = SetLast(ok, user_id)
    /\ UNCHANGED on_shift
    /\ UNCHANGED notRr

\* ------------------------------------------------------------------------
\* get_listings with loads that keep failing  (mpscraper/mpscraper.py)
\* ------------------------------------------------------------------------
LiveInit == mp_again = 0

LiveOff == mp_again = 0

\* The calls that end get_listings: it returned or raised.
MpEnded ==
    mp_pc \in {"returned", "ProxyError", "CategoryStale", "ListingsInterrupt",
               "KeyboardInterrupt", "ListingsError"}

\* One more failed load after MaxFailedLoads of them (the counts mp_blocks,
\* mp_misses, miss_run, driver_gen and detail_tries stay at their values).
\* The category page is blocked with no proxy (handler at 836-841: `continue`)
\* or has no data marker (handlers at 842-847: `continue`); the detail page is
\* blocked with no proxy (handler at 735-740: `continue`).
MpLoadAgain ==
    /\ mp_pc \in {"while", "detail"}
    /\ cat_idx <= Len(mp_site)
    /\ mp_pc = "while" => Len(listings) < max_listings
    /\ mp_blocks + mp_misses >= MaxFailedLoads
    /\ \E o \in {"forbidden", "miss"} :
         /\ o = "forbidden" => ~mp_proxy
         /\ o = "miss" => mp_pc = "while"
         /\ IF o = "forbidden"
            THEN AdaptiveOn403
            ELSE UNCHANGED << adaptive_delay, adaptive_success_count, since_block >>
    /\ mp_again' = 1 - mp_again
    /\ UNCHANGED << mpInputs, driver_gen, mp_pc, max_listings, listings, item_ids,
                    cat_idx, current_page, res_pos, page_listings, on_new_calls,
                    batched, detail_fetched, mp_blocks, mp_misses, miss_run,
                    detail_tries >>
    /\ UNCHANGED notAgain

MpLiveNext == MpNext \/ MpLoadAgain

\* ------------------------------------------------------------------------
\* Specifications
\* ------------------------------------------------------------------------
InitRound == RoundInit /\ FetchOff /\ DbOff /\ MpOff /\ CfgOff /\ RunOff /\ CatOff /\ ParOff /\ LiveOff /\ WatchOff /\ RrOff

SpecRound == InitRound /\ [][RoundNext]_vars

InitFetch == FetchInit /\ RoundOff /\ DbOff /\ MpOff /\ CfgOff /\ RunOff /\ CatOff /\ ParOff /\ LiveOff /\ WatchOff /\ RrOff

SpecFetch == InitFetch /\ [][FetchNext]_vars

InitDb == DbInit /\ RoundOff /\ FetchOff /\ MpOff /\ CfgOff /\ RunOff /\ CatOff /\ ParOff /\ LiveOff /\ WatchOff /\ RrOff

SpecDb == InitDb /\ [][DbNext]_vars

SpecStore == InitDb /\ [][StoreNext]_vars

InitMp == MpInit /\ RoundOff /\ FetchOff /\ DbOff /\ CfgOff /\ RunOff /\ CatOff /\ ParOff /\ LiveOff /\ WatchOff /\ RrOff

SpecMp == InitMp /\ [][MpNext]_vars

\* The two crawlers that keep a seen set: a round of the async crawler, or a
\* get_listings call.
InitSeen ==
    /\ \/ RoundInit /\ MpOff
       \/ MpInit /\ RoundOff
    /\ FetchOff /\ DbOff /\ CfgOff /\ RunOff /\ CatOff /\ ParOff /\ LiveOff /\ WatchOff /\ RrOff

SeenNext == RoundNext \/ MpNext

SpecSeen == InitSeen /\ [][SeenNext]_vars

InitCfg == CfgInit /\ RoundOff /\ FetchOff /\ DbOff /\ MpOff /\ RunOff /\ CatOff /\ ParOff /\ LiveOff /\ WatchOff /\ RrOff

SpecCfg == InitCfg /\ [][ExtractConfig]_vars

\* A get_listings call that can be interrupted, or a run of main or of a
\* worker over get_listings calls that can be.
InitStop ==
    /\ \/ MpInit /\ RunOff
       \/ RunInit /\ MpOff
    /\ RoundOff /\ FetchOff /\ DbOff /\ CfgOff /\ CatOff /\ ParOff /\ LiveOff /\ WatchOff /\ RrOff

StopNext == MpNext \/ MpInterrupt \/ MpInterruptInHandler \/ RunNext

SpecStop == InitStop /\ [][StopNext]_vars

InitRun == RunInit /\ RoundOff /\ FetchOff /\ DbOff /\ MpOff /\ CfgOff /\ CatOff /\ ParOff /\ LiveOff /\ WatchOff /\ RrOff

SpecRun == InitRun /\ [][RunNext]_vars

InitCat ==
    /\ CatInit /\ RoundOff /\ FetchOff /\ DbOff /\ MpOff /\ CfgOff /\ RunOff /\ ParOff /\ LiveOff /\ WatchOff /\ RrOff

SpecCat == InitCat /\ [][GetCategories]_vars

InitPar ==
    /\ ParInit /\ RoundOff /\ FetchOff /\ DbOff /\ MpOff /\ CfgOff /\ RunOff
    /\ CatOff /\ LiveOff /\ WatchOff /\ RrOff

SpecPar == InitPar /\ [][ParNext]_vars

InitRr ==
    /\ RrInit /\ RoundOff /\ FetchOff /\ DbOff /\ MpOff /\ CfgOff /\ RunOff
    /\ CatOff /\ ParOff /\ LiveOff /\ WatchOff

SpecRr == InitRr /\ [][Dispatch]_vars

InitWatch ==
    /\ WatchInit /\ RoundOff /\ FetchOff /\ DbOff /\ MpOff /\ CfgOff /\ RunOff
    /\ CatOff /\ ParOff /\ LiveOff /\ RrOff

SpecWatch == InitWatch /\ [][WatchNext]_vars

\* The rounds followed to their end: one category, and one category more
\* than there are workers.
TermRounds == {<<PageAd>>, [c \in 1..(concurrent + 1) |-> PageOne]}

\* A round of the async crawler, or fetch_with_retry calls on one rotator.
\* The event loop runs every task that is ready, and every request is
\* answered.
InitTerm ==
    /\ \/ RoundInit /\ index \in TermRounds /\ seen0 = {} /\ FetchOff
       \/ FetchInit /\ RoundOff
    /\ DbOff /\ MpOff /\ CfgOff /\ RunOff /\ CatOff /\ ParOff /\ LiveOff /\ WatchOff /\ RrOff

\* The fetch_with_retry calls followed to their end.
TermCalls == 1..Min(NumCalls, 2)

TermNext ==
    \/ RoundNext
    \/ \E k \in TermCalls : FetchBegin(k)
    \/ \E k \in TermCalls : FetchResponse(k)

TermFair ==
    /\ \A w \in Workers :
          WF_vars(WorkerStart(w) \/ IndexReturn(w) \/ DetailReturn(w))
    /\ WF_vars(RoundReturn)
    /\ \A k \in TermCalls : WF_vars(FetchBegin(k) \/ FetchResponse(k))

SpecTerm == InitTerm /\ [][TermNext]_vars /\ TermFair

\* One get_listings call on a small site, each load of which returns; the
\* call is the only thread and keeps running.
InitLive ==
    /\ MpInit /\ mp_site = SiteStaleFirst /\ mp_existing = {}
    /\ adaptive_success_count = 0
    /\ LiveInit /\ RoundOff /\ FetchOff /\ DbOff /\ CfgOff /\ RunOff /\ CatOff /\ ParOff /\ WatchOff /\ RrOff

SpecLive == InitLive /\ [][MpLiveNext]_vars /\ WF_vars(MpLiveNext)

\* ------------------------------------------------------------------------
\* Claims about the round
\* ------------------------------------------------------------------------
RECURSIVE SumOver(_, _)
SumOver(f, S) ==
    IF S = {} THEN 0
    ELSE LET x == CHOOSE y \in S : TRUE IN f[x] + SumOver(f, S \ {x})

TotalSaves == SumOver(saves, ItemIds)

\* C1: in one round every item ID is saved at most once, and no ID that was
\* in the seen-set at round start is saved.
C1_SavedAtMostOnce ==
    \A id \in ItemIds : saves[id] <= 1 /\ (id \in seen0 => saves[id] = 0)

\* C2: with a budget L > 0 the number of items saved in the round never
\* exceeds L.
C2_BudgetNotExceeded == limit > 0 => TotalSaves <= limit

\* C3: the first item found stale ends its category: every saved item of the
\* category precedes it and is not over the threshold, nothing after it is
\* fetched or saved, and in the example index (1h, 2h, 2.9h, 4h, 0.5h),
\* when none of its items is in the seen-set, there is no budget and no
\* fetch of the category fails, exactly the first three items are saved and
\* the 0.5h item is never fetched.
C3_StaleEndsCategory ==
    \A c \in Cats :
        /\ \A s \in DOMAIN outcome[c] :
             outcome[c][s] = "stale" =>
                /\ index[c][s].age >= MAX_AGE_HOURS
                /\ \A p \in DOMAIN outcome[c] :
                     /\ outcome[c][p] = "saved" => p < s
                     /\ p > s => outcome[c][p] = "none"
        /\ \A p \in DOMAIN outcome[c] :
             outcome[c][p] = "saved" => index[c][p].age < MAX_AGE_HOURS
        /\ ( /\ index[c] = PageExample
             /\ results[c] # <<>>
             /\ limit = 0
             /\ seen0 = {}
             /\ outcome[c][1] # "none"
             /\ \A p \in DOMAIN outcome[c] :
                   outcome[c][p] \notin {"failed", "raised"} )
           => /\ outcome[c] = <<"saved", "saved", "saved", "stale", "none">>
              /\ results[c] = <<3, TRUE>>

\* C9: in the async crawler an item with the sponsored-ad prefix is never
\* saved, takes no slot of a fetch list and costs no budget.
C9_AdNeverSavedAsync ==
    /\ \A id \in ItemIds : IsAd(id) => saves[id] = 0
    /\ \A w \in Workers : \A k \in DOMAIN to_fetch[w] :
         ~IsAd(index[w_cat[w]][to_fetch[w][k]].itemId)

\* C19: an exception raised while a worker processes a category becomes that
\* category's outcome (0 saved, not stale), and with no item budget every
\* category is taken off the queue exactly once and has its outcome when the
\* round returns, with every worker finished.
C19_ExceptionEndsOnlyCategory ==
    /\ \A c \in Cats :
          (\E p \in DOMAIN outcome[c] : outcome[c][p] = "raised")
              => results[c] = <<0, FALSE>>
    /\ limit = 0 => \A c \in Cats : taken[c] <= 1
    /\ (limit = 0 /\ total_saved # -1)
          => /\ \A c \in Cats : taken[c] = 1 /\ results[c] # <<>>
             /\ \A w \in Workers : w_pc[w] \in {"done", "absent"}

\* A round without budget has returned; one category ended with an exception,
\* another one saved items.
C19_Witness ==
    /\ limit = 0
    /\ total_saved # -1
    /\ \E c \in Cats : \E p \in DOMAIN outcome[c] : outcome[c][p] = "raised"
    /\ \E c \in Cats : \E p \in DOMAIN outcome[c] : outcome[c][p] = "saved"

\* C14: a listing is found stale only when its age is strictly over the
\* threshold, in _worker_category and in get_listings: an item whose age
\* equals the threshold never ends its category as stale.
C14_StaleOnlyOverThreshold ==
    /\ \A c \in Cats : \A p \in DOMAIN outcome[c] :
          outcome[c][p] = "stale" => index[c][p].age > MAX_AGE_HOURS
    /\ mp_pc = "CategoryStale" =>
          SitePage(cat_idx, current_page)[res_pos].age > mp_max_age

\* ------------------------------------------------------------------------
\* Claims about fetch_with_retry
\* ------------------------------------------------------------------------
\* C4: with two or more proxies, the attempt that follows a 403 goes through
\* an endpoint different from the one of the failed attempt, and a call whose
\* last response is OK returns the page, in every interleaving of the calls
\* sharing the rotator.
C4_RetryOnOtherProxy ==
    \A k \in Calls :
        /\ (Len(proxies) >= 2 /\ f_pc[k] = "await" /\ f_attempt[k] > 1)
              => f_proxy[k] # f_failed[k]
        /\ f_last[k] = "ok" => f_pc[k] = "returned"

\* C16: with at most one proxy configured, a fetch_with_retry call that gets
\* HTTP 403 tries the URL again through a new session: it fails with a 403
\* only when its last allowed attempt was answered 403.
C16_RetryWithoutProxyPool ==
    \A k \in Calls :
        (Len(proxies) <= 1 /\ f_pc[k] = "raised" /\ f_last[k] = "403")
            => f_attempt[k] = max_retries

\* ------------------------------------------------------------------------
\* Claims about upsert_listings
\* ------------------------------------------------------------------------
\* C10: a call of upsert_listings never lowers the number of stored rows;
\* when the merge has fewer rows than the table, the call raises ValueError
\* and leaves the table unchanged.
C10_UpsertNeverShrinks ==
    /\ Len(table) >= Len(db_prev)
    /\ db_exc = "ValueError" => table = db_prev
    /\ db_exc = "none" => db_ret = IF Len(db_batch) = 0 THEN 0 ELSE Len(table)
    /\ ( /\ db_exc # "nocall"
         /\ Len(db_batch) > 0
         /\ Len(db_prev) > 0
         /\ Cardinality({db_prev[i].item_id : i \in DOMAIN db_prev}
                        \cup {db_batch[i].item_id : i \in DOMAIN db_batch})
              < Len(db_prev) )
       => db_exc = "ValueError"

\* A call has been refused with ValueError on a non-empty table.
C10_Witness ==
    /\ db_exc = "ValueError"
    /\ Len(db_prev) > 0
    /\ Len(db_batch) > 0
    /\ table = db_prev

\* C11: when upsert_listings is called twice in a row with the same batch and
\* the first call returned, the second call returns too and leaves the stored
\* rows (their number and their field values) as the first call left them.
C11_UpsertIdempotent ==
    db_repeat => (db_exc = "none" /\ table = db_prev)

ItemIdsOf(t) == {t[i].item_id : i \in DOMAIN t}

\* C12: the listings table never holds two rows with the same item_id, and a
\* save_listing_to_db of an item_id that is already stored leaves the number
\* of rows unchanged and stores the new row.
C12_OneRowPerItemId ==
    /\ \A i, j \in DOMAIN table : table[i].item_id = table[j].item_id => i = j
    /\ (db_op = "save" /\ db_batch[1].item_id \in ItemIdsOf(db_prev))
          => (Len(table) = Len(db_prev) /\ table[Len(table)] = db_batch[1])

\* ------------------------------------------------------------------------
\* Claims about main and _worker_scrape_categories
\* ------------------------------------------------------------------------
\* C17: the worker opens its sessions on the configured proxies in the order
\* proxy[worker_id], proxy[worker_id + 1], ... (cyclically; from proxy[0] when
\* worker_id is past the list), each proxy at most once; every proxy failure
\* is followed by the next proxy of that order, and after the last proxy has
\* failed the worker has returned without another session.
C17_EachProxyOnce ==
    run_mode = "worker" =>
        LET n == Len(args_proxies)
            first == IF worker_id < n THEN worker_id ELSE 0
        IN
        /\ Len(run_sessions) <= Max(n, 1)
        /\ \A i \in DOMAIN run_sessions :
              n > 0 => run_sessions[i] = args_proxies[((first + i - 1) % n) + 1]
        /\ \A i, j \in DOMAIN run_sessions :
              run_sessions[i] = run_sessions[j] => i = j
        /\ run_pc = "new" => Len(run_sessions) = run_fails
        /\ run_pc = "call" => Len(run_sessions) = run_fails + 1
        /\ (n > 0 /\ run_fails = n)
              => (run_pc = "returned" /\ Len(run_sessions) = n)

\* Worker 1 of a run with three proxies has returned after all of them failed.
C17_Witness ==
    /\ run_mode = "worker"
    /\ worker_id = 1
    /\ Len(args_proxies) = 3
    /\ run_fails = 3
    /\ run_pc = "returned"
    /\ run_sessions = << args_proxies[2], args_proxies[3], args_proxies[1] >>

\* C18: a ListingsError raised for one category stops only that category:
\* when the loop over the categories has ended, get_listings has been called
\* for every category after the one that raised.
C18_ErrorStopsOnlyCategory ==
    run_pc \in {"after", "returned"} =>
        \A c \in run_err : \A d \in (c + 1)..Len(RunSite) : d \in run_called

\* C20: a KeyboardInterrupt that ends a get_listings call ends it with
\* ListingsInterrupt carrying the listings collected so far, wherever in the
\* category it arrives; and when main has ended, the listings carried by a
\* ListingsInterrupt are among those it wrote to storage.
C20_InterruptKeepsPartial ==
    /\ [][ ( /\ mp_pc \notin {"ListingsInterrupt", "KeyboardInterrupt"}
             /\ mp_pc' \in {"ListingsInterrupt", "KeyboardInterrupt"} )
           => (mp_pc' = "ListingsInterrupt" /\ listings' = listings) ]_vars
    /\ []((run_mode = "main" /\ run_pc = "returned") => run_intr \subseteq run_store)

\* ------------------------------------------------------------------------
\* Claims about extract_config
\* ------------------------------------------------------------------------
\* C13: for a payload with a nested object and string values that may hold
\* '{' and '}', extract_config returns what json.loads returns for the
\* payload text itself.
C13_ExtractEqualsDirectParse ==
    cfg_pc = "returned" =>
        /\ JsonLoads(cfg_text).ok
        /\ cfg_out.ok
        /\ cfg_out.val = JsonLoads(cfg_text).val

\* ------------------------------------------------------------------------
\* Claims about MpScraper
\* ------------------------------------------------------------------------
HasAdPrefix(item_id) == item_id[1] = "a"

\* C5: with no proxy configured, a ForbiddenError classification in
\* get_listings recreates the browser session and leaves the adaptive delay
\* strictly greater than it was before the classification.
C5_BlockGrowsDelay ==
    [][ (mp_blocks' = mp_blocks + 1 /\ ~mp_proxy)
          => (driver_gen' = driver_gen + 1 /\ adaptive_delay' > adaptive_delay) ]_vars

\* C15: when a load of an index page ends in ElementNotFound for the second
\* time in a row, the crawler goes to its rate-limit handling (the block is
\* counted) and never loads that page a third time after two misses.
C15_MissRetriedOnce ==
    [][ (miss_run >= 1 /\ mp_misses' = mp_misses + 1 /\ mp_pc = "while")
          => (mp_blocks' = mp_blocks + 1 /\ miss_run' = 0) ]_vars

\* C6: the success counter counts the successes since the last block
\* classification modulo the reset threshold K = max(3, 10 - floor(delay) div 10):
\* after K successes with no block in between the delay is the floor (0.3 s)
\* and the counter is 0, and a block restarts the count from 0.
C6_ResetAfterKSuccesses ==
    LET K == Max(3, 10 - ((adaptive_delay \div 10) \div 10)) IN
    /\ adaptive_success_count = since_block % K
    /\ (since_block > 0 /\ since_block % K = 0)
          => (adaptive_delay = 3 /\ adaptive_success_count = 0)

\* After a block, the K-th success in a row has just reset the counter.
C6_Witness ==
    /\ mp_blocks > 0
    /\ since_block = 10
    /\ adaptive_success_count = 0
    /\ adaptive_delay = 3

\* C7: the seen-ID set never loses an element: existing_item_ids of the round
\* always contains the set at round start, the seen set of a get_listings
\* call always contains its existing_item_ids argument, and no step removes
\* an element from either.
C7_SeenSetOnlyGrows ==
    /\ [](seen0 \subseteq existing_item_ids)
    /\ [](mp_existing \subseteq item_ids)
    /\ [][ /\ existing_item_ids \subseteq existing_item_ids'
           /\ item_ids \subseteq item_ids' ]_vars

\* A round has returned with new IDs in the shared set.
C7_Witness ==
    /\ total_saved # -1
    /\ TotalSaves > 0
    /\ seen0 # {}
    /\ seen0 \subseteq existing_item_ids
    /\ existing_item_ids # seen0

\* C8: in get_listings an item whose ID starts with the sponsored-ad prefix
\* is never collected, never passed to on_new_listing or on_batch, its detail
\* page is never requested, and passing over it leaves max_listings (and the
\* collected listings and the seen set) unchanged.
C8_AdNeverEmitted ==
    /\ [](\A id \in MpItemIds : HasAdPrefix(id) =>
            /\ \A i \in DOMAIN listings : listings[i] # id
            /\ \A i \in DOMAIN on_new_calls : on_new_calls[i] # id
            /\ \A i \in DOMAIN page_listings : page_listings[i] # id
            /\ id \notin batched
            /\ id \notin detail_fetched)
    /\ [][ ( /\ mp_pc = "item"
             /\ res_pos <= Len(SitePage(cat_idx, current_page))
             /\ HasAdPrefix(SitePage(cat_idx, current_page)[res_pos].itemId) )
           => ( /\ max_listings' = max_listings
                /\ listings' = listings
                /\ item_ids' = item_ids
                /\ mp_pc' \in {"item", "while"} ) ]_vars

\* An ad item has been passed over and an organic item after it collected.
C8_Witness ==
    /\ mp_pc = "item"
    /\ cat_idx = 1
    /\ current_page = 1
    /\ mp_site = SiteParent
    /\ res_pos = 3
    /\ listings = << <<"m", 1>> >>
    /\ detail_fetched = { <<"m", 1>> }

\* ------------------------------------------------------------------------
\* Further claims about the async round, get_listings and the rotator
\* ------------------------------------------------------------------------
\* The number of rows save_listing_to_db persisted for category c.
Persisted(c) == Cardinality({p \in DOMAIN outcome[c] : outcome[c][p] = "saved"})

\* C21: the count run_one_round_async reports equals the number of items
\* persisted with save_listing_to_db in the round, and each category's
\* outcome carries the number persisted for it, also when the category ended
\* early by staleness or by an error raised after some items were saved.
C21_ReportedEqualsPersisted ==
    /\ total_saved # -1 => total_saved = TotalSaves
    /\ \A c \in Cats : results[c] # <<>> => results[c][1] = Persisted(c)

\* C22: a dispatch that does not deliver (no worker on shift, or the send
\* fails) does not end the category: the item just saved stays counted in
\* the category's outcome, and the worker goes on to the next item of
\* to_fetch when there is one and the budget allows it.
C22_DispatchKeepsCategory ==
    [][\A w \in Workers :
         ( /\ w_pc[w] = "detail"
           /\ outcome[w_cat[w]][to_fetch[w][w_i[w]]] # "saved"
           /\ outcome'[w_cat[w]][to_fetch[w][w_i[w]]] = "saved"
           /\ last_dispatch' \in {"send_failed", "no_worker"} )
         => /\ results'[w_cat[w]] # <<>> => results'[w_cat[w]][1] >= 1
            /\ ( w_i[w] < Len(to_fetch[w]) /\ ~BudgetExhausted(remaining_limit') )
                 => /\ w_pc'[w] = "detail"
                    /\ w_cat'[w] = w_cat[w]
                    /\ w_i'[w] = w_i[w] + 1 ]_vars

\* C23: in a get_listings call over subcategories a staleness stop ends only
\* the subcategory it occurs in: the call is never ended by staleness while
\* subcategories remain to be crawled.
C23_StaleEndsOnlySubcategory ==
    mp_pc = "CategoryStale" => cat_idx = Len(mp_site)

\* C24: a failed detail fetch skips the listing and lowers max_listings by
\* exactly one, and the detail page of one listing is fetched only a bounded
\* number of times, whatever the failure: the fetches of one detail page
\* stay within MaxFailedLoads, the number of loads that fail in one call.
C24_DetailFetchBounded ==
    /\ [][ (mp_pc = "detail" /\ mp_misses' = mp_misses + 1)
             => /\ max_listings' = max_listings - 1
                /\ res_pos' = res_pos + 1
                /\ listings' = listings
                /\ item_ids' = item_ids ]_vars
    /\ [](detail_tries <= MaxFailedLoads)

\* C25: the adaptive delay is never negative and always lies between 0.3 s
\* and 3600 s (3 and 36000 tenths of a second).
C25_DelayWithinBounds ==
    /\ adaptive_delay >= 0
    /\ adaptive_delay >= 3
    /\ adaptive_delay <= 36000

\* A call has met a block and later successes, the last of which reset the
\* delay and the counter.
C25_Witness ==
    /\ mp_blocks >= 1
    /\ since_block >= 1
    /\ adaptive_success_count = 0
    /\ adaptive_delay = adaptive_delay_min

Rotations(k) ==
    IF f_attempt[k] = 0 \/ Len(proxies) <= 1 THEN 0
    ELSE (f_attempt[k] - 1)
           + (IF f_pc[k] = "raised" /\ f_last[k] = "403" THEN 1 ELSE 0)

\* C27: the rotator's index never decreases and is never reset; every
\* next_proxy call raises it by exactly one, so the calls of k concurrent
\* fetches raise it by their number; current() is proxies[index mod length],
\* and after length advances it is the endpoint it started from.
C27_IndexOnlyAdvances ==
    /\ [][idx' = idx \/ idx' = idx + 1]_vars
    /\ [](idx = SumOver([k \in Calls |-> Rotations(k)], Calls))
    /\ [](proxies # <<>> =>
            /\ Current(proxies, idx) = proxies[(idx % Len(proxies)) + 1]
            /\ idx % Len(proxies) = 0 => Current(proxies, idx) = proxies[1]
            /\ idx >= Len(proxies) =>
                  Current(proxies, idx) = Current(proxies, idx - Len(proxies)))

\* Two concurrent calls have both rotated, and the index has come round to
\* the first endpoint of a pool of several.
C27_Witness ==
    /\ Len(proxies) > 1
    /\ idx = Len(proxies)
    /\ \A k \in Calls : Rotations(k) >= 1

\* C28: within one category the detail fetches run strictly in index order
\* and one at a time: the item in flight comes after every item of the
\* category fetched before it and before every item still to fetch, and no
\* two workers hold the same category.
C28_DetailsInIndexOrder ==
    \A w \in Workers :
        w_pc[w] = "detail" =>
            LET c == w_cat[w]
                tf == to_fetch[w]
                i == w_i[w]
            IN /\ i \in DOMAIN tf
               /\ \A j, k \in DOMAIN tf : j < k => tf[j] < tf[k]
               /\ \A j \in DOMAIN tf : j < i => outcome[c][tf[j]] # "none"
               /\ \A p \in DOMAIN outcome[c] : p >= tf[i] => outcome[c][p] = "none"
               /\ \A v \in Workers \ {w} : w_cat[v] # c

\* The third item of a category's fetch list is in flight while another
\* worker fetches for another category.
C28_Witness ==
    \E w, v \in Workers :
        /\ w_pc[w] = "detail" /\ w_i[w] >= 3
        /\ w_pc[v] = "detail" /\ v # w

\* The worker tasks that run, and the fetches awaited inside `async with sem`.
Running == {w \in Workers : w_pc[w] \notin {"absent", "done"}}
InFlight == {w \in Workers : w_pc[w] \in {"index", "detail"}}

\* C29: at most min(N, number of categories) workers run, and never more
\* than N network fetches are in flight at once.
C29_AtMostNInFlight ==
    /\ Cardinality({w \in Workers : w_pc[w] # "absent"})
          <= Min(concurrent, Len(index))
    /\ Cardinality(Running) <= Min(concurrent, Len(index))
    /\ Cardinality(InFlight) <= concurrent

\* A round with more categories than workers has all N workers fetching.
C29_Witness ==
    /\ Len(index) > concurrent
    /\ Cardinality(InFlight) = concurrent
    /\ queue # <<>>

\* ------------------------------------------------------------------------
\* Claims about get_categories
\* ------------------------------------------------------------------------
\* The path is /cp/<id>/<slug>, with or without a closing slash.
IsCpIdSlug(path) ==
    /\ Len(path) \in {6, 7}
    /\ SubSeq(path, 1, 3) = <<"/", "cp", "/">>
    /\ IntOf(<<path[4]>>) # ValueError
    /\ path[5] = "/"
    /\ path[6] # "/"
    /\ Len(path) = 7 => path[7] = "/"

\* C30: get_categories returns the categories parsed from the menu markup
\* whenever that yields at least one, and those of __CONFIG__.categoryLinks
\* only when it yields none; for the same id and the same /cp/<id>/<slug>
\* path both ways yield the same id and listing URL, with the slug-rewrite
\* table applied in both.
C30_MenuFirstThenConfig ==
    LET from_html == GetCategoriesFromHtml(cat_nav)
        from_config == GetCategoriesFromConfig(cat_config)
    IN /\ cat_pc = "returned" =>
            cat_out = IF Len(from_html) >= 1 THEN from_html ELSE from_config
       /\ \A i \in DOMAIN cat_nav.links, j \in DOMAIN cat_config.val :
            LET a == cat_nav.links[i]
                link == cat_config.val[j]
            IN ( /\ IsCpIdSlug(a.href)
                 /\ link.url = a.href
                 /\ link.id = IntOf(<<a.href[4]>>) )
               => /\ HtmlCategory(a) # <<>>
                  /\ ConfigCategory(link) # <<>>
                  /\ HtmlCategory(a)[1][1] = ConfigCategory(link)[1][1]
                  /\ HtmlCategory(a)[1][3] = ConfigCategory(link)[1][3]
                  /\ HtmlCategory(a)[1][3] =
                        ListingUrl(CP_TO_L_SLUG(<<a.href[6]>>))

\* The call has returned the menu's category although categoryLinks holds
\* the same /cp/91/auto-kopen path with the same id; its URL has the
\* rewritten slug.
C30_Witness ==
    /\ cat_pc = "returned"
    /\ cat_nav.ul /\ Len(cat_nav.links) >= 1
    /\ cat_config.ok /\ Len(cat_config.val) >= 1
    /\ cat_nav.links[1].href = <<"/", "cp", "/", "91", "/", "auto-kopen", "/">>
    /\ cat_config.val[1].url = cat_nav.links[1].href
    /\ cat_config.val[1].id = 91
    /\ cat_config.val[1].name # cat_nav.links[1].text
    /\ Len(cat_out) >= 1
    /\ cat_out[1][3] = ListingUrl(<<"auto-s">>)

\* ------------------------------------------------------------------------
\* Claims about the runs of python -m mpscraper
\* ------------------------------------------------------------------------
\* C31: in the parallel mode with --limit L > 0 the new listings collected
\* by all workers in one run number at most L.
C31_ParallelWithinLimit ==
    par_limit > 0 => SumOverWorkers(par_got, MaxWorkers) <= par_limit

\* C32: in _worker_scrape_categories a listing is collected and put on the
\* progress queue at most once per run, also after a ProxyError made the
\* worker go on with the next proxy.
C32_WorkerCollectsOnce ==
    run_mode = "worker" =>
        \A i, j \in DOMAIN run_listings :
            run_listings[i] = run_listings[j] => i = j

\* C33: in the sequential mode every listing a completed get_listings call
\* returned is part of what the run has written to storage when it ends,
\* also when a later category raised ProxyError and the run went on with
\* the next proxy.
C33_ReturnedListingsStored ==
    (run_mode = "main" /\ run_pc = "returned") => run_returned \subseteq run_store

\* ------------------------------------------------------------------------
\* Claims about MpScraper.get_listings
\* ------------------------------------------------------------------------

\* C34: the list get_listings returns, and the list its ListingsError or
\* ListingsInterrupt carries, never holds two listings with the same item_id
\* and never one whose item_id is in existing_item_ids, over all pages and
\* subcategories of the parent category.
C34_ListingsDistinctAndNew ==
    /\ \A i, j \in DOMAIN listings : listings[i] = listings[j] => i = j
    /\ SeqToSet(listings) \cap mp_existing = {}

\* Both subcategories list m1, which was seen before the call; the call
\* returns the two other listings.
C34_Witness ==
    /\ mp_pc = "returned"
    /\ mp_site = SiteSubcats
    /\ <<"m", 1>> \in mp_existing
    /\ listings = << <<"m", 6>>, <<"m", 7>> >>

\* C35: for limit >= 1 get_listings never collects more than limit listings
\* for one parent category, over all its pages and subcategories, whatever
\* listings_count() reports and however many seen items or failed detail
\* fetches lower max_listings.
C35_AtMostLimitCollected ==
    mp_arg_limit >= 1 => Len(listings) <= mp_arg_limit

\* The limit is reached on a page that has more new listings, after a seen
\* item or a failed detail fetch lowered max_listings.
C35_Witness ==
    /\ mp_arg_limit = 2
    /\ Len(listings) = 2
    /\ max_listings < 2
    /\ mp_pc = "returned"

\* C36: get_listings terminates for every category: when each single page
\* load returns, the call eventually returns or raises, also when every load
\* of a page is rate-limited or structurally broken and no proxy is set.
C36_GetListingsTerminates == <>MpEnded

\* ------------------------------------------------------------------------
\* Claims about the end of a round
\* ------------------------------------------------------------------------

\* C37: run_one_round_async terminates: each fetch_with_retry call makes at
\* most 5 attempts and ends, every worker eventually exits, no category is
\* taken for processing once the budget is exhausted (so one put back on the
\* queue is never processed later), and the round returns its summary.
C37_RoundTerminates ==
    /\ [](\A k \in Calls : f_attempt[k] <= 5)
    /\ <>(\A k \in TermCalls : f_pc[k] \in {"off", "returned", "raised"})
    /\ <>(\A w \in Workers : w_pc[w] \in {"done", "absent"})
    /\ [][BudgetExhausted(remaining_limit) => taken' = taken]_vars
    /\ <>(total_saved # -1)

\* The round has returned while a category that was put back is still on
\* the queue, never taken.
C37_Witness ==
    /\ total_saved # -1
    /\ BudgetExhausted(remaining_limit)
    /\ queue # <<>>
    /\ \E c \in DOMAIN taken : taken[c] = 0 /\ c \in SeqToSet(queue)

\* ------------------------------------------------------------------------
\* Claims about run_watch_loop
\* ------------------------------------------------------------------------

\* C38: over all rounds of one run_watch_loop session each item_id is put on
\* new_listing_queue at most once, and an item_id that was stored when the
\* loop started is never put on it, also after the scraper was closed and
\* created again following an error.
C38_QueuedOnceAndNew ==
    /\ \A i, j \in DOMAIN new_listing_queue :
          new_listing_queue[i] = new_listing_queue[j] => i = j
    /\ SeqToSet(new_listing_queue) \cap wl_stored = {}

\* A second scraper was created after an error, item 1 was stored at the
\* start, and the two other items were queued.
C38_Witness ==
    /\ wl_opened = 2
    /\ wl_stored = {1}
    /\ Len(new_listing_queue) = 2
    /\ wl_rounds = 2

\* ------------------------------------------------------------------------
\* Claims about listings without a timestamp
\* ------------------------------------------------------------------------

\* The listing the get_listings call is at.
MpCurrent == SitePage(cat_idx, current_page)[res_pos]

\* C39: a listing whose posted timestamp is missing or cannot be parsed is
\* treated as fresh, in _worker_category and in get_listings alike: it is
\* emitted, it does not trigger the staleness stop, and it does not fail the
\* category.
C39_NoTimestampIsFresh ==
    /\ \A c \in DOMAIN index : \A p \in DOMAIN index[c] :
          index[c][p].age = NoAge =>
             /\ outcome[c][p] # "stale"
             /\ (outcome[c][p] = "saved" /\ results[c] # <<>>) => results[c][1] >= 1
    /\ (mp_pc \in {"ListingsError", "CategoryStale"} /\ ~mp_fast) =>
          MpCurrent.age # NoAge

\* ------------------------------------------------------------------------
\* Claims about the dispatch
\* ------------------------------------------------------------------------

\* The worker after u in ascending user_id order, cyclically.
After(u) == on_shift[(IndexOf(on_shift, u) % Len(on_shift)) + 1]

\* C40: send_listing_to_next_worker goes round-robin over the workers on
\* shift: with a fixed on-shift set each dispatch is offered to the worker
\* after the one of the dispatch before, in ascending user_id order
\* (cyclically), so n consecutive dispatches go to n distinct workers, also
\* when a delivery fails.
C40_RoundRobin ==
    \A i \in 1..(Len(rr_offered) - 1) : rr_offered[i + 1] = After(rr_offered[i])

====
